---- MODULE Spec2Model ----
(***************************************************************************)
(* KEV: the layered environment-variable store of ts-utils                 *)
(* (src/platform/kev.ts).  Strings are sequences of one-character strings, *)
(* so that key parsing, line splitting, trimming and quoting are computed  *)
(* character by character as the JavaScript string methods compute them.   *)
(***************************************************************************)
EXTENDS Integers, Sequences, FiniteSets, TLC

VARIABLES
  memory,   \* KevOps.memory: insertion-ordered Map, a sequence of [key, value, source]
  sources,  \* KevOps.sources: the ordered source list
  env,      \* process.env: insertion-ordered, a sequence of [key, value]
  files,    \* the file system: a function from the existing paths to their text
  last,     \* the last call: operation, arguments, returned value, fatal flag, I/O trace
  warnOnceCache,    \* log: the keys of the LRUCache of warnOnce, least recently set first
  console,          \* log: the messages written to the console, in order
  currentLogLevel   \* log: the priority read from LOG_LEVEL when the module was loaded

vars == <<memory, sources, env, files, last, warnOnceCache, console, currentLogLevel>>

logVars == <<warnOnceCache, console, currentLogLevel>>

(***************************************************************************)
(* JavaScript string methods, on sequences of characters.                  *)
(***************************************************************************)
startsWith(s, p) == Len(p) <= Len(s) /\ SubSeq(s, 1, Len(p)) = p

endsWith(s, p) == Len(p) <= Len(s) /\ SubSeq(s, Len(s) - Len(p) + 1, Len(s)) = p

includes(s, sub) ==
  \E i \in 1..(Len(s) - Len(sub) + 1) : SubSeq(s, i, i + Len(sub) - 1) = sub

\* s.slice(1, -1)
sliceInner(s) == SubSeq(s, 2, Len(s) - 1)

\* index of the first occurrence of the character c in s, 0 when there is none
indexOf(s, c) ==
  IF \E i \in 1..Len(s) : s[i] = c
  THEN CHOOSE i \in 1..Len(s) : s[i] = c /\ \A j \in 1..(i - 1) : s[j] # c
  ELSE 0

\* s.split(c): every piece between occurrences of the separator character c
RECURSIVE split(_, _)
split(s, c) ==
  LET i == indexOf(s, c)
  IN IF i = 0 THEN <<s>>
     ELSE <<SubSeq(s, 1, i - 1)>> \o split(SubSeq(s, i + 1, Len(s)), c)

\* s.split(c, limit): the first `limit` pieces of s.split(c); the rest is dropped
splitLimit(s, c, limit) ==
  LET all == split(s, c)
  IN IF Len(all) > limit THEN SubSeq(all, 1, limit) ELSE all

WhiteSpace == {" ", "\t", "\n", "\r"}

RECURSIVE trimStart(_)
trimStart(s) ==
  IF s # <<>> /\ Head(s) \in WhiteSpace THEN trimStart(Tail(s)) ELSE s

RECURSIVE trimEnd(_)
trimEnd(s) ==
  IF s # <<>> /\ s[Len(s)] \in WhiteSpace THEN trimEnd(SubSeq(s, 1, Len(s) - 1)) ELSE s

trim(s) == trimEnd(trimStart(s))

\* lines.join(c)
RECURSIVE join(_, _)
join(lines, c) ==
  IF lines = <<>> THEN <<>>
  ELSE IF Len(lines) = 1 THEN lines[1]
  ELSE lines[1] \o <<c>> \o join(Tail(lines), c)

(***************************************************************************)
(* String literals of the program.                                         *)
(***************************************************************************)
Empty == <<>>
StrOs == <<"o", "s">>
StrSet == <<"s", "e", "t">>
StrDefault == <<"d", "e", "f", "a", "u", "l", "t">>
StrDotEnv == <<".", "e", "n", "v">>
StrStar == <<"*">>

\* the limit passed to split(':', 2) and split('=', 2)
SplitParts == 2

\* process.cwd(): a directory below the project root, itself below the
\* monorepo root, so that the relative ".env" names a file of its own
Cwd == <<"/", "m", "/", "a", "/", "s">>

(***************************************************************************)
(* path.join(root, name) and path.absolute(p), for paths without "." or    *)
(* ".." segments (normalisation leaves those unchanged).                   *)
(***************************************************************************)
pathJoin(root, name) == root \o <<"/">> \o name

pathAbsolute(p) == IF startsWith(p, <<"/">>) THEN p ELSE pathJoin(Cwd, p)

(***************************************************************************)
(* Insertion-ordered maps (Map, process.env) as sequences of records.      *)
(***************************************************************************)
mapIndex(m, k) ==
  IF \E i \in 1..Len(m) : m[i].key = k
  THEN CHOOSE i \in 1..Len(m) : m[i].key = k
  ELSE 0

mapHas(m, k) == mapIndex(m, k) # 0

\* a put that keeps an existing entry instead of overwriting it
mapPutKeepFirst(m, entry) ==
  IF mapIndex(m, entry.key) = 0 THEN Append(m, entry) ELSE m

\* Map.set / obj[k] = v: overwrite in place, or append
mapPut(m, entry) ==
  LET i == mapIndex(m, entry.key)
  IN IF i = 0 THEN Append(m, entry) ELSE [m EXCEPT ![i] = entry]

\* Map.delete / delete obj[k]
mapDelete(m, k) ==
  LET i == mapIndex(m, k)
  IN IF i = 0 THEN m ELSE SubSeq(m, 1, i - 1) \o SubSeq(m, i + 1, Len(m))

mapKeys(m) == [i \in 1..Len(m) |-> m[i].key]

\* a lookup that never finds the entry
memoryGetMiss(m, k) == <<>>

\* this.memory.get(key): the entry, or undefined (here the empty sequence)
memoryGet(m, k) == IF mapHas(m, k) THEN <<m[mapIndex(m, k)]>> ELSE <<>>

MemEntry(k, v, s) == [key |-> k, value |-> v, source |-> s]

\* sourceOf(key)
sourceOf(m, k) == IF mapHas(m, k) THEN m[mapIndex(m, k)].source ELSE Empty

(***************************************************************************)
(* runtime.env / setEnv / deleteEnv / hasEnv on process.env.               *)
(***************************************************************************)
\* runtime.env(key) || ''
runtimeEnv(e, k) == IF mapHas(e, k) THEN e[mapIndex(e, k)].value ELSE Empty

runtimeHasEnv(e, k) == mapHas(e, k)

runtimeSetEnv(e, k, v) == mapPut(e, [key |-> k, value |-> v])

runtimeDeleteEnv(e, k) == mapDelete(e, k)

(***************************************************************************)
(* file.exists / file.readText / file.write.                               *)
(***************************************************************************)
fileExists(fs, p) == p \in DOMAIN fs

fileReadText(fs, p) == fs[p]

fileWrite(fs, p, text) == (p :> text) @@ fs

(***************************************************************************)
(* I/O trace events of one call.                                           *)
(***************************************************************************)
Event(kind, on, name) == [kind |-> kind, on |-> on, name |-> name]

isFileNamespace(ns) == startsWith(ns, <<".">>) \/ includes(ns, <<"/">>)

\* the event a read of backend ns leaves (none for an inert namespace)
readEvents(ns) ==
  IF ns = StrOs THEN <<Event("read", "os", Empty)>>
  ELSE IF isFileNamespace(ns) THEN <<Event("read", "file", ns)>>
  ELSE <<>>

(***************************************************************************)
(* parseKey                                                                *)
(***************************************************************************)
\* a parseKey without the check for an empty namespace or key
parseKeyNoEmptyCheck(key) ==
  IF startsWith(key, <<":">>) THEN [fatal |-> TRUE, ns |-> Empty, key |-> Empty]
  ELSE IF includes(key, <<":", ":">>) THEN [fatal |-> TRUE, ns |-> Empty, key |-> Empty]
  ELSE LET parts == splitLimit(key, ":", SplitParts)
       IN IF Len(parts) = 2
          THEN [fatal |-> FALSE, ns |-> parts[1], key |-> parts[2]]
          ELSE [fatal |-> FALSE, ns |-> Empty, key |-> key]

parseKey(key) ==
  IF startsWith(key, <<":">>) THEN [fatal |-> TRUE, ns |-> Empty, key |-> Empty]
  ELSE IF includes(key, <<":", ":">>) THEN [fatal |-> TRUE, ns |-> Empty, key |-> Empty]
  ELSE LET parts == splitLimit(key, ":", SplitParts)
       IN IF Len(parts) = 2
          THEN IF parts[1] = Empty \/ parts[2] = Empty
               THEN [fatal |-> TRUE, ns |-> Empty, key |-> Empty]
               ELSE [fatal |-> FALSE, ns |-> parts[1], key |-> parts[2]]
          ELSE [fatal |-> FALSE, ns |-> Empty, key |-> key]

(***************************************************************************)
(* File backend: getFromFile                                               *)
(***************************************************************************)
\* strip one pair of surrounding matching quotes
unquote(value) ==
  IF \/ (startsWith(value, <<"\"">>) /\ endsWith(value, <<"\"">>))
     \/ (startsWith(value, <<"'">>) /\ endsWith(value, <<"'">>))
  THEN sliceInner(value)
  ELSE value

RECURSIVE scanLines(_, _)
scanLines(lines, key) ==
  IF lines = <<>> THEN Empty
  ELSE LET trimmed == trim(Head(lines))
           parts == splitLimit(trimmed, "=", SplitParts)
       IN IF trimmed = Empty \/ startsWith(trimmed, <<"#">>)
          THEN scanLines(Tail(lines), key)
          ELSE IF Len(parts) = 2 /\ trim(parts[1]) = key
          THEN unquote(trim(parts[2]))
          ELSE scanLines(Tail(lines), key)

getFromFile(fs, filePath, key) ==
  IF ~fileExists(fs, filePath) THEN Empty
  ELSE scanLines(split(fileReadText(fs, filePath), "\n"), key)

getFromNamespace(e, fs, namespace, key) ==
  IF namespace = StrOs THEN runtimeEnv(e, key)
  ELSE IF isFileNamespace(namespace) THEN getFromFile(fs, namespace, key)
  ELSE Empty

(***************************************************************************)
(* Resolver: get, mustGet                                                  *)
(***************************************************************************)
Outcome(ret, fatal, m, e, fs, io) ==
  [ret |-> ret, fatal |-> fatal, memory |-> m, env |-> e, files |-> fs, io |-> io]

\* a search that keeps the last source with a value instead of the first
searchSourcesLast(srcs, e, fs, key, i) ==
  LET hits == {j \in i..Len(srcs) : getFromNamespace(e, fs, srcs[j], key) # Empty}
  IN IF hits = {} THEN 0 ELSE CHOOSE j \in hits : \A h \in hits : h <= j

\* the loop over this.sources in get: the index of the first source from
\* position i on whose backend yields a non-empty value, 0 when none does
RECURSIVE searchSources(_, _, _, _, _)
searchSources(srcs, e, fs, key, i) ==
  IF i > Len(srcs) THEN 0
  ELSE IF getFromNamespace(e, fs, srcs[i], key) # Empty THEN i
  ELSE searchSources(srcs, e, fs, key, i + 1)

\* the backends read while walking srcs[1..n]
RECURSIVE consulted(_, _)
consulted(srcs, n) ==
  IF n = 0 THEN <<>> ELSE consulted(srcs, n - 1) \o readEvents(srcs[n])

\* a provenance that is the source as it is named in the list
absoluteSourceAsNamed(source) == source

absoluteSource(source) ==
  IF source # StrOs /\ source # StrDefault /\ source # StrSet
  THEN pathAbsolute(source)
  ELSE source

\* def is <<>> for an undefined defaultValue, <<d>> for a default d

\* a namespaced read that caches the default it falls back to
getNamespacedCaching(m, e, fs, namespace, realKey, def) ==
  LET val == getFromNamespace(e, fs, namespace, realKey)
  IN IF val # Empty THEN Outcome(val, FALSE, m, e, fs, readEvents(namespace))
     ELSE IF def # <<>>
     THEN Outcome(def[1], FALSE, mapPut(m, MemEntry(realKey, def[1], StrDefault)), e, fs,
                  readEvents(namespace))
     ELSE Outcome(Empty, FALSE, m, e, fs, readEvents(namespace))

\* get, namespaced branch: direct access to one backend, nothing cached
getNamespaced(m, e, fs, namespace, realKey, def) ==
  LET val == getFromNamespace(e, fs, namespace, realKey)
  IN IF val # Empty THEN Outcome(val, FALSE, m, e, fs, readEvents(namespace))
     ELSE IF def # <<>> THEN Outcome(def[1], FALSE, m, e, fs, readEvents(namespace))
     ELSE Outcome(Empty, FALSE, m, e, fs, readEvents(namespace))

\* a default that is returned without being cached
getDefaultUncached(m, e, fs, realKey, def, io) ==
  IF def # <<>> THEN Outcome(def[1], FALSE, m, e, fs, io)
  ELSE Outcome(Empty, FALSE, m, e, fs, io)

\* get, after the search found nothing: use the default and cache it
getDefault(m, e, fs, realKey, def, io) ==
  IF def # <<>>
  THEN Outcome(def[1], FALSE, mapPut(m, MemEntry(realKey, def[1], StrDefault)), e, fs,
               Append(io, Event("write", "memory", realKey)))
  ELSE Outcome(Empty, FALSE, m, e, fs, io)

\* get, unnamespaced and not in memory: search through the sources
getFromSources(m, srcs, e, fs, realKey, def, io) ==
  LET hit == searchSources(srcs, e, fs, realKey, 1)
      val == getFromNamespace(e, fs, srcs[hit], realKey)
  IN IF hit # 0
     THEN Outcome(val, FALSE,
                  mapPut(m, MemEntry(realKey, val, absoluteSource(srcs[hit]))), e, fs,
                  Append(io \o consulted(srcs, hit), Event("write", "memory", realKey)))
     ELSE getDefault(m, e, fs, realKey, def, io \o consulted(srcs, Len(srcs)))

\* a get that takes a cached empty value for no entry
getEmptyIsMiss(m, srcs, e, fs, key, def) ==
  LET pk == parseKey(key)
      entry == memoryGet(m, pk.key)
      memRead == <<Event("read", "memory", pk.key)>>
  IN IF pk.fatal THEN Outcome(Empty, TRUE, m, e, fs, <<>>)
     ELSE IF pk.ns # Empty THEN getNamespaced(m, e, fs, pk.ns, pk.key, def)
     ELSE IF entry # <<>> /\ entry[1].value # Empty
     THEN Outcome(entry[1].value, FALSE, m, e, fs, memRead)
     ELSE getFromSources(m, srcs, e, fs, pk.key, def, memRead)

get(m, srcs, e, fs, key, def) ==
  LET pk == parseKey(key)
      entry == memoryGet(m, pk.key)
      memRead == <<Event("read", "memory", pk.key)>>
  IN IF pk.fatal THEN Outcome(Empty, TRUE, m, e, fs, <<>>)
     ELSE IF pk.ns # Empty THEN getNamespaced(m, e, fs, pk.ns, pk.key, def)
     ELSE IF entry # <<>> THEN Outcome(entry[1].value, FALSE, m, e, fs, memRead)
     ELSE getFromSources(m, srcs, e, fs, pk.key, def, memRead)

\* a mustGet that returns the empty string instead of ending the call
mustGetLenient(m, srcs, e, fs, key) == get(m, srcs, e, fs, key, <<>>)

mustGet(m, srcs, e, fs, key) ==
  LET r == get(m, srcs, e, fs, key, <<>>)
  IN IF ~r.fatal /\ r.ret = Empty THEN [r EXCEPT !.fatal = TRUE] ELSE r

\* getWithSource(key, defaultValue): [value, source]
getWithSource(m, srcs, e, fs, key, def) ==
  LET r == get(m, srcs, e, fs, key, def)
      cached == sourceOf(r.memory, key)
      pk == parseKey(key)
  IN IF r.fatal THEN [r EXCEPT !.ret = <<Empty, Empty>>]
     ELSE IF r.ret # Empty
     THEN [r EXCEPT !.ret = <<r.ret, IF cached = Empty /\ pk.ns # Empty THEN pk.ns ELSE cached>>]
     ELSE [r EXCEPT !.ret = <<Empty, Empty>>]

(***************************************************************************)
(* File backend: setToFile                                                 *)
(***************************************************************************)
quoteValue(value) ==
  IF includes(value, <<" ">>) \/ includes(value, <<"\t">>) \/ includes(value, <<"\n">>)
  THEN <<"\"">> \o value \o <<"\"">>
  ELSE value

\* does the line define key, as the rewrite loop of setToFile decides it
lineHasKey(line, key) ==
  LET trimmed == trim(line)
      parts == splitLimit(trimmed, "=", SplitParts)
  IN /\ trimmed # Empty
     /\ ~startsWith(trimmed, <<"#">>)
     /\ Len(parts) >= 1
     /\ trim(parts[1]) = key

RECURSIVE rewriteLines(_, _, _)
rewriteLines(existingLines, key, value) ==
  IF existingLines = <<>> THEN <<>>
  ELSE LET line == Head(existingLines)
       IN <<IF lineHasKey(line, key) THEN key \o <<"=">> \o quoteValue(value) ELSE line>>
          \o rewriteLines(Tail(existingLines), key, value)

\* a setToFile that appends the new line also when a line was updated
setToFileAlwaysAppend(fs, path, key, value) ==
  LET existingLines == IF fileExists(fs, path) THEN split(fileReadText(fs, path), "\n") ELSE <<>>
      lines == rewriteLines(existingLines, key, value)
  IN fileWrite(fs, path, join(Append(lines, key \o <<"=">> \o quoteValue(value)), "\n"))

setToFile(fs, path, key, value) ==
  LET existingLines == IF fileExists(fs, path) THEN split(fileReadText(fs, path), "\n") ELSE <<>>
      found == \E i \in 1..Len(existingLines) : lineHasKey(existingLines[i], key)
      lines == rewriteLines(existingLines, key, value)
      out == IF found THEN lines ELSE Append(lines, key \o <<"=">> \o quoteValue(value))
  IN fileWrite(fs, path, join(out, "\n"))

(***************************************************************************)
(* set                                                                     *)
(***************************************************************************)
\* a namespaced write that also writes the value through to the cache
setToNamespaceWriteThrough(m, e, fs, namespace, key, value) ==
  IF namespace = StrOs
  THEN Outcome(Empty, FALSE, mapPut(m, MemEntry(key, value, namespace)),
               runtimeSetEnv(e, key, value), fs, <<Event("write", "os", key)>>)
  ELSE IF isFileNamespace(namespace)
  THEN Outcome(Empty, FALSE, mapPut(m, MemEntry(key, value, namespace)), e,
               setToFile(fs, namespace, key, value), <<Event("write", "file", namespace)>>)
  ELSE Outcome(Empty, FALSE, m, e, fs, <<>>)

setToNamespace(m, e, fs, namespace, key, value) ==
  IF namespace = StrOs
  THEN Outcome(Empty, FALSE, m, runtimeSetEnv(e, key, value), fs,
               <<Event("write", "os", key)>>)
  ELSE IF isFileNamespace(namespace)
  THEN Outcome(Empty, FALSE, m, e, setToFile(fs, namespace, key, value),
               (IF fileExists(fs, namespace) THEN <<Event("read", "file", namespace)>> ELSE <<>>)
               \o <<Event("write", "file", namespace)>>)
  ELSE Outcome(Empty, FALSE, m, e, fs, <<>>)

set(m, e, fs, key, value) ==
  LET pk == parseKey(key)
  IN IF pk.fatal THEN Outcome(Empty, TRUE, m, e, fs, <<>>)
     ELSE IF pk.ns # Empty THEN setToNamespace(m, e, fs, pk.ns, pk.key, value)
     ELSE Outcome(Empty, FALSE, mapPut(m, MemEntry(pk.key, value, StrSet)), e, fs,
                  <<Event("write", "memory", pk.key)>>)

(***************************************************************************)
(* has                                                                     *)
(***************************************************************************)
hasInNamespace(e, fs, namespace, key) ==
  IF namespace = StrOs THEN runtimeHasEnv(e, key)
  ELSE IF isFileNamespace(namespace) THEN getFromFile(fs, namespace, key) # Empty
  ELSE FALSE

\* the loop over this.sources in has: index of the first source that has the key
RECURSIVE searchHas(_, _, _, _, _)
searchHas(srcs, e, fs, key, i) ==
  IF i > Len(srcs) THEN 0
  ELSE IF hasInNamespace(e, fs, srcs[i], key) THEN i
  ELSE searchHas(srcs, e, fs, key, i + 1)

has(m, srcs, e, fs, key) ==
  LET pk == parseKey(key)
      hit == searchHas(srcs, e, fs, pk.key, 1)
      memRead == <<Event("read", "memory", pk.key)>>
  IN IF pk.fatal THEN Outcome(FALSE, TRUE, m, e, fs, <<>>)
     ELSE IF pk.ns # Empty
     THEN Outcome(hasInNamespace(e, fs, pk.ns, pk.key), FALSE, m, e, fs, readEvents(pk.ns))
     ELSE IF mapHas(m, pk.key) THEN Outcome(TRUE, FALSE, m, e, fs, memRead)
     ELSE IF hit # 0 THEN Outcome(TRUE, FALSE, m, e, fs, memRead \o consulted(srcs, hit))
     ELSE Outcome(FALSE, FALSE, m, e, fs, memRead \o consulted(srcs, Len(srcs)))

(***************************************************************************)
(* Pattern matcher and key enumeration                                     *)
(***************************************************************************)
\* a matchPattern without the "pre*post" form
matchPatternNoInfix(key, pattern) ==
  IF pattern = StrStar THEN TRUE
  ELSE IF endsWith(pattern, <<"*">>)
  THEN startsWith(key, SubSeq(pattern, 1, Len(pattern) - 1))
  ELSE IF startsWith(pattern, <<"*">>)
  THEN endsWith(key, Tail(pattern))
  ELSE key = pattern

matchPattern(key, pattern) ==
  IF pattern = StrStar THEN TRUE
  ELSE IF endsWith(pattern, <<"*">>)
  THEN startsWith(key, SubSeq(pattern, 1, Len(pattern) - 1))
  ELSE IF startsWith(pattern, <<"*">>)
  THEN endsWith(key, Tail(pattern))
  ELSE IF includes(pattern, <<"*">>) /\ Len(split(pattern, "*")) = 2
  THEN startsWith(key, split(pattern, "*")[1]) /\ endsWith(key, split(pattern, "*")[2])
  ELSE key = pattern

\* the loop of parseEnvFile over the lines, filling the result object
RECURSIVE parseEnvLines(_, _, _, _)
parseEnvLines(lines, pattern, result, keysOnly) ==
  IF lines = <<>> THEN result
  ELSE LET trimmed == trim(Head(lines))
           parts == splitLimit(trimmed, "=", SplitParts)
           key == trim(parts[1])
           next ==
             IF trimmed = Empty \/ startsWith(trimmed, <<"#">>) THEN result
             ELSE IF ~matchPattern(key, pattern) THEN result
             ELSE IF keysOnly THEN mapPut(result, [key |-> key, value |-> Empty])
             ELSE IF Len(parts) = 2
             THEN mapPut(result, [key |-> key, value |-> unquote(trim(parts[2]))])
             ELSE result
       IN parseEnvLines(Tail(lines), pattern, next, keysOnly)

parseEnvFile(fs, path, pattern, result, keysOnly) ==
  IF ~fileExists(fs, path) THEN result
  ELSE parseEnvLines(split(fileReadText(fs, path), "\n"), pattern, result, keysOnly)

\* the loop of getNamespaceData over Object.entries(runtime.allEnv())
RECURSIVE osEntries(_, _, _, _)
osEntries(e, pattern, result, keysOnly) ==
  IF e = <<>> THEN result
  ELSE osEntries(Tail(e), pattern,
                 IF matchPattern(Head(e).key, pattern)
                 THEN mapPut(result, [key |-> Head(e).key,
                                      value |-> IF keysOnly THEN Empty ELSE Head(e).value])
                 ELSE result,
                 keysOnly)

getNamespaceData(e, fs, namespace, pattern, keysOnly) ==
  IF namespace = StrOs THEN osEntries(e, pattern, <<>>, keysOnly)
  ELSE IF isFileNamespace(namespace) THEN parseEnvFile(fs, namespace, pattern, <<>>, keysOnly)
  ELSE <<>>

keysFromNamespace(e, fs, namespace, pattern) ==
  mapKeys(getNamespaceData(e, fs, namespace, pattern, TRUE))

\* `${namespace}:${key}`
Namespaced(namespace, key) == namespace \o <<":">> \o key

\* a result.push for every key, seen before or not
pushEvery(result, ks) == result \o ks

\* result.push for every key not seen before
RECURSIVE pushUnseen(_, _)
pushUnseen(result, ks) ==
  IF ks = <<>> THEN result
  ELSE pushUnseen(IF \E i \in 1..Len(result) : result[i] = Head(ks)
                  THEN result ELSE Append(result, Head(ks)),
                  Tail(ks))

\* the keys of every source of the list matching the pattern, in list order
RECURSIVE keysFromSources(_, _, _, _)
keysFromSources(srcs, e, fs, pattern) ==
  IF srcs = <<>> THEN <<>>
  ELSE keysFromNamespace(e, fs, Head(srcs), pattern)
         \o keysFromSources(Tail(srcs), e, fs, pattern)

\* the loop of keys over its patterns
RECURSIVE keysFrom(_, _, _, _, _, _, _)
keysFrom(m, srcs, e, fs, patterns, result, io) ==
  IF patterns = <<>> THEN Outcome(result, FALSE, m, e, fs, io)
  ELSE LET pk == parseKey(Head(patterns))
           nsKeys == keysFromNamespace(e, fs, pk.ns, pk.key)
           fullKeys == [i \in 1..Len(nsKeys) |-> Namespaced(pk.ns, nsKeys[i])]
           cached == SelectSeq(mapKeys(m), LAMBDA key : matchPattern(key, pk.key))
       IN IF pk.fatal THEN Outcome(<<>>, TRUE, m, e, fs, io)
          ELSE IF pk.ns # Empty
          THEN keysFrom(m, srcs, e, fs, Tail(patterns), pushUnseen(result, fullKeys),
                        io \o readEvents(pk.ns))
          ELSE keysFrom(m, srcs, e, fs, Tail(patterns),
                        pushUnseen(pushUnseen(result, cached),
                                   keysFromSources(srcs, e, fs, pk.key)),
                        io \o <<Event("read", "memory", pk.key)>> \o consulted(srcs, Len(srcs)))

\* keys(pattern): pattern is one pattern or a list of patterns
keys(m, srcs, e, fs, patterns) == keysFrom(m, srcs, e, fs, patterns, <<>>, <<>>)

(***************************************************************************)
(* all                                                                     *)
(***************************************************************************)
StrMemory == <<"m", "e", "m", "o", "r", "y">>
StrStarStar == <<"*", ":", "*">>

\* `${entry.value} [from: ${entry.source}]`
annotated(entry) ==
  entry.value \o <<" ", "[", "f", "r", "o", "m", ":", " ">> \o entry.source \o <<"]">>

\* getAllFromNamespace(namespace, pattern)
getAllFromNamespace(e, fs, namespace, pattern) ==
  getNamespaceData(e, fs, namespace, pattern, FALSE)

\* the entries of an object whose key matches one of the patterns
matching(entries, patterns) ==
  SelectSeq(entries, LAMBDA en : \E i \in 1..Len(patterns) : matchPattern(en.key, patterns[i]))

\* the copy of this.memory with the source noted after each value
memCopy(m) == [i \in 1..Len(m) |-> [key |-> m[i].key, value |-> annotated(m[i])]]

\* result[name] = entries, when there are entries
groupSet(result, name, entries) ==
  IF entries = <<>> THEN result ELSE mapPut(result, [key |-> name, value |-> entries])

\* Object.assign(target, source)
RECURSIVE objectAssign(_, _)
objectAssign(target, source) ==
  IF source = <<>> THEN target ELSE objectAssign(mapPut(target, Head(source)), Tail(source))

\* all, no pattern with a namespace: one group per source of the list
RECURSIVE allFromSources(_, _, _, _, _, _)
allFromSources(srcs, e, fs, patterns, filter, result) ==
  IF srcs = <<>> THEN result
  ELSE LET sourceVars == getAllFromNamespace(e, fs, Head(srcs), StrStar)
           sourceMatches == IF filter THEN matching(sourceVars, patterns) ELSE sourceVars
       IN allFromSources(Tail(srcs), e, fs, patterns, filter,
                         groupSet(result, Head(srcs), sourceMatches))

\* all, specific namespaced patterns: the loop over the patterns
RECURSIVE allFromPatterns(_, _, _, _, _, _)
allFromPatterns(m, e, fs, patterns, result, io) ==
  IF patterns = <<>> THEN Outcome(result, FALSE, m, e, fs, io)
  ELSE LET pk == parseKey(Head(patterns))
           nsVars == getAllFromNamespace(e, fs, pk.ns, pk.key)
           old == IF mapHas(result, pk.ns) THEN result[mapIndex(result, pk.ns)].value ELSE <<>>
       IN IF pk.fatal THEN Outcome(<<>>, TRUE, m, e, fs, io)
          ELSE IF pk.ns # Empty
          THEN allFromPatterns(m, e, fs, Tail(patterns),
                               groupSet(result, pk.ns, objectAssign(old, nsVars)),
                               io \o readEvents(pk.ns))
          ELSE allFromPatterns(m, e, fs, Tail(patterns), result, io)

\* all(pattern): patterns is <<>> for no pattern, else the list of patterns;
\* the result is the list of groups [key: group name, value: its entries]
all(m, srcs, e, fs, patterns) ==
  LET memRead == <<Event("read", "memory", StrStar)>>
  IN IF patterns = <<>>
     THEN Outcome(groupSet(<<>>, StrMemory, memCopy(m)), FALSE, m, e, fs, memRead)
     ELSE IF ~\E i \in 1..Len(patterns) : includes(patterns[i], <<":">>)
     THEN Outcome(allFromSources(srcs, e, fs, patterns, TRUE,
                                 groupSet(<<>>, StrMemory, matching(memCopy(m), patterns))),
                  FALSE, m, e, fs, memRead \o consulted(srcs, Len(srcs)))
     ELSE IF patterns = <<StrStarStar>>
     THEN Outcome(allFromSources(srcs, e, fs, patterns, FALSE,
                                 groupSet(<<>>, StrMemory, memCopy(m))),
                  FALSE, m, e, fs, memRead \o consulted(srcs, Len(srcs)))
     ELSE allFromPatterns(m, e, fs, patterns, <<>>, <<>>)

(***************************************************************************)
(* clear, clearUnsafe, unset                                               *)
(***************************************************************************)
\* the deletion loops of clear: one pattern after the other
RECURSIVE clearPatterns(_, _)
clearPatterns(m, patterns) ==
  IF patterns = <<>> THEN m
  ELSE clearPatterns(SelectSeq(m, LAMBDA en : ~matchPattern(en.key, Head(patterns))),
                     Tail(patterns))

\* a clear that checks each pattern only when it comes to it
RECURSIVE clearAsItGoes(_, _, _, _)
clearAsItGoes(m, e, fs, patterns) ==
  IF patterns = <<>> THEN Outcome(Empty, FALSE, m, e, fs, <<>>)
  ELSE IF includes(Head(patterns), <<":">>) THEN Outcome(Empty, TRUE, m, e, fs, <<>>)
  ELSE clearAsItGoes(clearPatterns(m, <<Head(patterns)>>), e, fs, Tail(patterns))

clear(m, e, fs, patterns) ==
  IF \E i \in 1..Len(patterns) : includes(patterns[i], <<":">>)
  THEN Outcome(Empty, TRUE, m, e, fs, <<>>)
  ELSE IF Len(patterns) = 0
  THEN Outcome(Empty, FALSE, <<>>, e, fs, <<Event("delete", "memory", StrStar)>>)
  ELSE Outcome(Empty, FALSE, clearPatterns(m, patterns), e, fs,
               [i \in 1..Len(patterns) |-> Event("delete", "memory", patterns[i])])

\* runtime.deleteEnv over a list of keys
RECURSIVE deleteEnvKeys(_, _)
deleteEnvKeys(e, names) ==
  IF names = <<>> THEN e ELSE deleteEnvKeys(runtimeDeleteEnv(e, Head(names)), Tail(names))

\* a clearUnsafe loop without the refusal of "os:*"
RECURSIVE clearUnsafeFromNoRail(_, _, _, _, _)
clearUnsafeFromNoRail(m, e, fs, patterns, io) ==
  IF patterns = <<>> THEN Outcome(Empty, FALSE, m, e, fs, io)
  ELSE LET pattern == Head(patterns)
           pk == parseKey(pattern)
       IN IF pk.fatal THEN Outcome(Empty, TRUE, m, e, fs, io)
          ELSE IF pk.ns = Empty
          THEN LET c == clear(m, e, fs, <<pattern>>)
               IN IF c.fatal THEN Outcome(Empty, TRUE, m, e, fs, io)
                  ELSE clearUnsafeFromNoRail(c.memory, e, fs, Tail(patterns), io \o c.io)
          ELSE IF pk.ns = StrOs
          THEN clearUnsafeFromNoRail(m, deleteEnvKeys(e, keysFromNamespace(e, fs, StrOs, pk.key)),
                                     fs, Tail(patterns),
                                     io \o <<Event("read", "os", Empty),
                                             Event("delete", "os", pk.key)>>)
          ELSE Outcome(Empty, TRUE, m, e, fs, io)

\* the loop of clearUnsafe over its patterns, left to right
RECURSIVE clearUnsafeFrom(_, _, _, _, _)
clearUnsafeFrom(m, e, fs, patterns, io) ==
  IF patterns = <<>> THEN Outcome(Empty, FALSE, m, e, fs, io)
  ELSE LET pattern == Head(patterns)
           pk == parseKey(pattern)
       IN IF pk.fatal THEN Outcome(Empty, TRUE, m, e, fs, io)
          ELSE IF pk.ns = Empty
          THEN LET c == clear(m, e, fs, <<pattern>>)
               IN IF c.fatal THEN Outcome(Empty, TRUE, m, e, fs, io)
                  ELSE clearUnsafeFrom(c.memory, e, fs, Tail(patterns), io \o c.io)
          ELSE IF pk.ns = StrOs
          THEN IF pk.key = StrStar THEN Outcome(Empty, TRUE, m, e, fs, io)
               ELSE clearUnsafeFrom(m, deleteEnvKeys(e, keysFromNamespace(e, fs, StrOs, pk.key)),
                                    fs, Tail(patterns),
                                    io \o <<Event("read", "os", Empty),
                                            Event("delete", "os", pk.key)>>)
          ELSE Outcome(Empty, TRUE, m, e, fs, io)

clearUnsafe(m, e, fs, patterns) == clearUnsafeFrom(m, e, fs, patterns, <<>>)

\* an unset loop whose "os:" branch also drops the cache entry
RECURSIVE unsetFromAlsoCache(_, _, _, _, _)
unsetFromAlsoCache(m, e, fs, names, io) ==
  IF names = <<>> THEN Outcome(Empty, FALSE, m, e, fs, io)
  ELSE LET pk == parseKey(Head(names))
       IN IF pk.fatal THEN Outcome(Empty, TRUE, m, e, fs, io)
          ELSE IF pk.ns # Empty
          THEN IF pk.ns = StrOs
               THEN unsetFromAlsoCache(mapDelete(m, pk.key), runtimeDeleteEnv(e, pk.key), fs,
                                       Tail(names), Append(io, Event("delete", "os", pk.key)))
               ELSE Outcome(Empty, TRUE, m, e, fs, io)
          ELSE unsetFromAlsoCache(mapDelete(m, pk.key), e, fs, Tail(names),
                                  Append(io, Event("delete", "memory", pk.key)))

\* the loop of unset over its keys, left to right
RECURSIVE unsetFrom(_, _, _, _, _)
unsetFrom(m, e, fs, names, io) ==
  IF names = <<>> THEN Outcome(Empty, FALSE, m, e, fs, io)
  ELSE LET pk == parseKey(Head(names))
       IN IF pk.fatal THEN Outcome(Empty, TRUE, m, e, fs, io)
          ELSE IF pk.ns # Empty
          THEN IF pk.ns = StrOs
               THEN unsetFrom(m, runtimeDeleteEnv(e, pk.key), fs, Tail(names),
                              Append(io, Event("delete", "os", pk.key)))
               ELSE Outcome(Empty, TRUE, m, e, fs, io)
          ELSE unsetFrom(mapDelete(m, pk.key), e, fs, Tail(names),
                         Append(io, Event("delete", "memory", pk.key)))

\* an unset that takes nothing away when one of its keys ends it fatally
unsetAllOrNothing(m, e, fs, names) ==
  LET r == unsetFrom(m, e, fs, names, <<>>)
  IN IF r.fatal THEN Outcome(Empty, TRUE, m, e, fs, <<>>) ELSE r

unset(m, e, fs, names) == unsetFrom(m, e, fs, names, <<>>)

(***************************************************************************)
(* SourceOps                                                               *)
(***************************************************************************)
sourceSet(srcs, given) == given

sourceAdd(srcs, given) == srcs \o given

\* the first position of s in the list, 0 when it is not in it
mapIndexOf(srcs, s) ==
  IF \E i \in 1..Len(srcs) : srcs[i] = s
  THEN CHOOSE i \in 1..Len(srcs) : srcs[i] = s /\ \A j \in 1..(i - 1) : srcs[j] # s
  ELSE 0

RECURSIVE sourceRemoveFirst(_, _)
\* a remove that deletes the first occurrence of each named source only
sourceRemoveFirst(srcs, given) ==
  IF given = <<>> THEN srcs
  ELSE LET i == mapIndexOf(srcs, Head(given))
       IN sourceRemoveFirst(IF i = 0 THEN srcs
                            ELSE SubSeq(srcs, 1, i - 1) \o SubSeq(srcs, i + 1, Len(srcs)),
                            Tail(given))

sourceRemove(srcs, given) ==
  SelectSeq(srcs, LAMBDA s : ~(\E i \in 1..Len(given) : given[i] = s))

sourceClear(srcs) == <<>>

(***************************************************************************)
(* Typed getters: int, bool, float                                         *)
(***************************************************************************)
UpperCase == <<"A", "B", "C", "D", "E", "F", "G", "H", "I", "J", "K", "L", "M",
               "N", "O", "P", "Q", "R", "S", "T", "U", "V", "W", "X", "Y", "Z">>

LowerCase == <<"a", "b", "c", "d", "e", "f", "g", "h", "i", "j", "k", "l", "m",
               "n", "o", "p", "q", "r", "s", "t", "u", "v", "w", "x", "y", "z">>

toLowerCase(s) ==
  [i \in 1..Len(s) |->
     IF \E j \in 1..Len(UpperCase) : UpperCase[j] = s[i]
     THEN LowerCase[CHOOSE j \in 1..Len(UpperCase) : UpperCase[j] = s[i]]
     ELSE s[i]]

Digits == <<"0", "1", "2", "3", "4", "5", "6", "7", "8", "9">>

isDigit(c) == \E j \in 1..Len(Digits) : Digits[j] = c

digitValue(c) == (CHOOSE j \in 1..Len(Digits) : Digits[j] = c) - 1

\* the longest prefix of s made of decimal digits
RECURSIVE digitsPrefix(_)
digitsPrefix(s) ==
  IF s # <<>> /\ isDigit(Head(s)) THEN <<Head(s)>> \o digitsPrefix(Tail(s)) ELSE <<>>

RECURSIVE decimalValue(_, _)
decimalValue(ds, acc) ==
  IF ds = <<>> THEN acc ELSE decimalValue(Tail(ds), acc * Len(Digits) + digitValue(Head(ds)))

\* parseInt(val, 10): leading white space, an optional sign, then digits
parseInt(val) ==
  LET t == trimStart(val)
      signed == t # <<>> /\ Head(t) \in {"+", "-"}
      body == IF signed THEN Tail(t) ELSE t
      ds == digitsPrefix(body)
  IN IF ds = <<>> THEN [nan |-> TRUE, value |-> 0]
     ELSE [nan |-> FALSE,
           value |-> IF signed /\ Head(t) = "-" THEN 0 - decimalValue(ds, 0)
                     ELSE decimalValue(ds, 0)]

\* parseFloat(val): the decimal literal read (sign, digits, fraction); the
\* literal stands for the number, exponents are outside the modelled inputs
parseFloat(val) ==
  LET t == trimStart(val)
      signed == t # <<>> /\ Head(t) \in {"+", "-"}
      body == IF signed THEN Tail(t) ELSE t
      whole == digitsPrefix(body)
      rest == SubSeq(body, Len(whole) + 1, Len(body))
      frac == IF rest # <<>> /\ Head(rest) = "." THEN digitsPrefix(Tail(rest)) ELSE <<>>
      sign == IF signed /\ Head(t) = "-" THEN <<"-">> ELSE <<>>
  IN IF whole = <<>> /\ frac = <<>> THEN [nan |-> TRUE, value |-> Empty]
     ELSE [nan |-> FALSE,
           value |-> sign \o whole \o (IF frac # <<>> THEN <<".">> \o frac ELSE <<>>)]

int(m, srcs, e, fs, key, defaultValue) ==
  LET r == get(m, srcs, e, fs, key, <<>>)
      i == parseInt(r.ret)
  IN IF r.fatal THEN [r EXCEPT !.ret = 0]
     ELSE IF r.ret = Empty THEN [r EXCEPT !.ret = defaultValue]
     ELSE IF i.nan THEN [r EXCEPT !.ret = 0, !.fatal = TRUE]
     ELSE [r EXCEPT !.ret = i.value]

StrTrue == <<"t", "r", "u", "e">>
StrOne == <<"1">>
StrYes == <<"y", "e", "s">>
StrOn == <<"o", "n">>
StrFalse == <<"f", "a", "l", "s", "e">>
StrZero == <<"0">>
StrNo == <<"n", "o">>
StrOff == <<"o", "f", "f">>

\* a bool that compares the value as written
boolCaseSensitive(m, srcs, e, fs, key, defaultValue) ==
  LET r == get(m, srcs, e, fs, key, <<>>)
      val == r.ret
  IN IF r.fatal THEN [r EXCEPT !.ret = FALSE]
     ELSE IF val = Empty THEN [r EXCEPT !.ret = defaultValue]
     ELSE IF val \in {StrTrue, StrOne, StrYes, StrOn} THEN [r EXCEPT !.ret = TRUE]
     ELSE IF val \in {StrFalse, StrZero, StrNo, StrOff} THEN [r EXCEPT !.ret = FALSE]
     ELSE [r EXCEPT !.ret = FALSE, !.fatal = TRUE]

bool(m, srcs, e, fs, key, defaultValue) ==
  LET r == get(m, srcs, e, fs, key, <<>>)
      val == toLowerCase(r.ret)
  IN IF r.fatal THEN [r EXCEPT !.ret = FALSE]
     ELSE IF val = Empty THEN [r EXCEPT !.ret = defaultValue]
     ELSE IF val \in {StrTrue, StrOne, StrYes, StrOn} THEN [r EXCEPT !.ret = TRUE]
     ELSE IF val \in {StrFalse, StrZero, StrNo, StrOff} THEN [r EXCEPT !.ret = FALSE]
     ELSE [r EXCEPT !.ret = FALSE, !.fatal = TRUE]

float(m, srcs, e, fs, key, defaultValue) ==
  LET r == get(m, srcs, e, fs, key, <<>>)
      f == parseFloat(r.ret)
  IN IF r.fatal THEN r
     ELSE IF r.ret = Empty THEN [r EXCEPT !.ret = defaultValue]
     ELSE IF f.nan THEN [r EXCEPT !.ret = Empty, !.fatal = TRUE]
     ELSE [r EXCEPT !.ret = f.value]

(***************************************************************************)
(* export, dump                                                            *)
(***************************************************************************)
\* `${key}=${val}  # from: ${entry.source}`, val in double quotes when the
\* value contains a space, a tab or a new line
exportLine(entry) ==
  LET val == IF includes(entry.value, <<" ">>) \/ includes(entry.value, <<"\t">>)
                  \/ includes(entry.value, <<"\n">>)
             THEN <<"\"">> \o entry.value \o <<"\"">>
             ELSE entry.value
  IN entry.key \o <<"=">> \o val \o <<" ", " ", "#", " ", "f", "r", "o", "m", ":", " ">>
       \o entry.source

\* lines.join('\n')
RECURSIVE joinLines(_)
joinLines(lines) ==
  IF lines = <<>> THEN <<>>
  ELSE IF Len(lines) = 1 THEN lines[1]
  ELSE lines[1] \o <<"\n">> \o joinLines(Tail(lines))

export(m, e, fs, path) ==
  LET lines == [i \in 1..Len(m) |-> exportLine(m[i])]
  IN Outcome(Empty, FALSE, m, e, fileWrite(fs, path, joinLines(lines)),
             <<Event("write", "file", path)>>)

MaskLength == 4
Mask == <<"*", "*", "*", "*">>

\* does dump take the key for a sensitive one
looksSensitive(key) ==
  LET lower == toLowerCase(key)
  IN \/ includes(lower, <<"k", "e", "y">>)
     \/ includes(lower, <<"s", "e", "c", "r", "e", "t">>)
     \/ includes(lower, <<"p", "a", "s", "s", "w", "o", "r", "d">>)
     \/ includes(lower, <<"t", "o", "k", "e", "n">>)

\* maskedVal of dump, for the key and the val of an entry of all()
maskedVal(key, val) ==
  IF looksSensitive(key)
  THEN IF Len(val) > MaskLength THEN SubSeq(val, 1, MaskLength) \o Mask ELSE Mask
  ELSE val

\* `${namespace}:${key}=${maskedVal}` for every entry of one group
dumpGroup(namespace, entries) ==
  [i \in 1..Len(entries) |->
     namespace \o <<":">> \o entries[i].key \o <<"=">>
       \o maskedVal(entries[i].key, entries[i].value)]

\* the lines dump prints for the groups of all()
RECURSIVE dumpLines(_)
dumpLines(groups) ==
  IF groups = <<>> THEN <<>>
  ELSE dumpGroup(Head(groups).key, Head(groups).value) \o dumpLines(Tail(groups))

\* dump(): one console.log event for every line
dump(m, srcs, e, fs) ==
  LET lines == dumpLines(all(m, srcs, e, fs, <<>>).ret)
  IN Outcome(Empty, FALSE, m, e, fs,
             [i \in 1..Len(lines) |-> Event("log", "console", lines[i])])

(***************************************************************************)
(* Construction: the default source list                                   *)
(***************************************************************************)
\* sources = ['os', '.env'], then initializeSmartDefaults with the roots
\* findMonorepoRoot() and findProjectRoot() returned ('' when none was found)
initializeSmartDefaults(monorepoRoot, projectRoot) ==
  LET base == <<StrOs, StrDotEnv>>
      withMono == IF monorepoRoot # Empty
                  THEN Append(base, pathJoin(monorepoRoot, StrDotEnv))
                  ELSE base
  IN IF projectRoot # Empty
        /\ (monorepoRoot = Empty
            \/ pathJoin(projectRoot, StrDotEnv) # pathJoin(monorepoRoot, StrDotEnv))
     THEN Append(withMono, pathJoin(projectRoot, StrDotEnv))
     ELSE withMono

(***************************************************************************)
(* log: LOG_LEVELS, the LRUCache of warnOnce, warn                         *)
(***************************************************************************)
LevelError == 0
LevelWarn == 1
LevelInfo == 2
LevelTrace == 4

\* the capacity of warnOnceCache: new LRUCache(10_000) in the source, kept
\* small here; nothing below depends on its value
CacheCapacity == 2

\* an LRUCache.set that removes the entry it has just set when over capacity
lruSetDropNewest(cache, key) ==
  LET without == SelectSeq(cache, LAMBDA k : k # key)
      put == Append(without, key)
  IN IF Len(put) > CacheCapacity THEN SubSeq(put, 1, Len(put) - 1) ELSE put

\* LRUCache.set(key, true): move or add the key to the end, then drop the
\* first key when the size exceeds maxSize
lruSet(cache, key) ==
  LET without == SelectSeq(cache, LAMBDA k : k # key)
      put == Append(without, key)
  IN IF Len(put) > CacheCapacity THEN Tail(put) ELSE put

lruHas(cache, key) == \E i \in 1..Len(cache) : cache[i] = key

\* prefixedLog('warn', ...messages): the text written after the prefix, if
\* the level lets it through
warn(out, level, messages) ==
  IF LevelWarn > level THEN out ELSE Append(out, join(messages, " "))

LogInit ==
  /\ warnOnceCache = <<>>
  /\ console = <<>>
  /\ currentLogLevel = LevelInfo

(***************************************************************************)
(* Actions: one per call on the store                                      *)
(***************************************************************************)
\* the record of a call; tick alternates, so that no call is a stuttering step
Record(op, args, def, ret, fatal, io) ==
  [op |-> op, args |-> args, def |-> def, ret |-> ret, fatal |-> fatal, io |-> io,
   tick |-> 1 - last.tick]

Call(op, args, def, r) ==
  /\ memory' = r.memory
  /\ env' = r.env
  /\ files' = r.files
  /\ last' = Record(op, args, def, r.ret, r.fatal, r.io)
  /\ UNCHANGED logVars

ParseKey(key) ==
  /\ last' = Record("parseKey", <<key>>, <<>>, <<parseKey(key).ns, parseKey(key).key>>,
                    parseKey(key).fatal, <<>>)
  /\ UNCHANGED <<memory, sources, env, files>>
  /\ UNCHANGED logVars

Get(key, def) ==
  /\ Call("get", <<key>>, def, get(memory, sources, env, files, key, def))
  /\ UNCHANGED sources

MustGet(key) ==
  /\ Call("mustGet", <<key>>, <<>>, mustGet(memory, sources, env, files, key))
  /\ UNCHANGED sources

GetWithSource(key, def) ==
  /\ Call("getWithSource", <<key>>, def, getWithSource(memory, sources, env, files, key, def))
  /\ UNCHANGED sources

Set(key, value) ==
  /\ Call("set", <<key, value>>, <<>>, set(memory, env, files, key, value))
  /\ UNCHANGED sources

Has(key) ==
  /\ Call("has", <<key>>, <<>>, has(memory, sources, env, files, key))
  /\ UNCHANGED sources

Keys(patterns) ==
  /\ Call("keys", patterns, <<>>, keys(memory, sources, env, files, patterns))
  /\ UNCHANGED sources

All(patterns) ==
  /\ Call("all", patterns, <<>>, all(memory, sources, env, files, patterns))
  /\ UNCHANGED sources

Export(path) ==
  /\ Call("export", <<path>>, <<>>, export(memory, env, files, path))
  /\ UNCHANGED sources

Dump ==
  /\ Call("dump", <<>>, <<>>, dump(memory, sources, env, files))
  /\ UNCHANGED sources

Unset(names) ==
  /\ Call("unset", names, <<>>, unset(memory, env, files, names))
  /\ UNCHANGED sources

Clear(patterns) ==
  /\ Call("clear", patterns, <<>>, clear(memory, env, files, patterns))
  /\ UNCHANGED sources

ClearUnsafe(patterns) ==
  /\ Call("clearUnsafe", patterns, <<>>, clearUnsafe(memory, env, files, patterns))
  /\ UNCHANGED sources

CallInt(key, defaultValue) ==
  /\ Call("int", <<key>>, <<defaultValue>>,
          int(memory, sources, env, files, key, defaultValue))
  /\ UNCHANGED sources

CallBool(key, defaultValue) ==
  /\ Call("bool", <<key>>, <<defaultValue>>,
          bool(memory, sources, env, files, key, defaultValue))
  /\ UNCHANGED sources

CallFloat(key, defaultValue) ==
  /\ Call("float", <<key>>, <<defaultValue>>,
          float(memory, sources, env, files, key, defaultValue))
  /\ UNCHANGED sources

SourceCall(op, given, srcs) ==
  /\ sources' = srcs
  /\ last' = Record(op, given, <<>>, Empty, FALSE, <<>>)
  /\ UNCHANGED <<memory, env, files>>
  /\ UNCHANGED logVars

SourceSet(given) == SourceCall("source.set", given, sourceSet(sources, given))

SourceAdd(given) == SourceCall("source.add", given, sourceAdd(sources, given))

SourceRemove(given) == SourceCall("source.remove", given, sourceRemove(sources, given))

SourceClear == SourceCall("source.clear", <<>>, sourceClear(sources))

(***************************************************************************)
(* Actions of the surroundings: the process environment and the files      *)
(* change behind the store's back.                                         *)
(***************************************************************************)
RuntimeSetEnv(key, value) ==
  /\ env' = runtimeSetEnv(env, key, value)
  /\ last' = Record("runtime.setEnv", <<key, value>>, <<>>, Empty, FALSE, <<>>)
  /\ UNCHANGED <<memory, sources, files>>
  /\ UNCHANGED logVars

RuntimeDeleteEnv(key) ==
  /\ env' = runtimeDeleteEnv(env, key)
  /\ last' = Record("runtime.deleteEnv", <<key>>, <<>>, Empty, FALSE, <<>>)
  /\ UNCHANGED <<memory, sources, files>>
  /\ UNCHANGED logVars

FileWrite(path, text) ==
  /\ files' = fileWrite(files, path, text)
  /\ last' = Record("file.write", <<path, text>>, <<>>, Empty, FALSE, <<>>)
  /\ UNCHANGED <<memory, sources, env>>
  /\ UNCHANGED logVars

FileRemove(path) ==
  /\ fileExists(files, path)
  /\ files' = [p \in DOMAIN files \ {path} |-> files[p]]
  /\ last' = Record("file.remove", <<path>>, <<>>, Empty, FALSE, <<>>)
  /\ UNCHANGED <<memory, sources, env>>
  /\ UNCHANGED logVars

NoCall == [op |-> "new", args |-> <<>>, def |-> <<>>,
           ret |-> Empty, fatal |-> FALSE, io |-> <<>>, tick |-> 0]

(***************************************************************************)
(* The resolver specification: one key, the OS environment and the local   *)
(* .env file as sources, every operation of the store.                     *)
(***************************************************************************)
\* the longest source list source.add may build
MaxSources == 2

KeyK == <<"K">>
KeyJ == <<"J">>
ValA == <<"a">>
ValB == <<"b">>
ValD == <<"d">>
OsK == Namespaced(StrOs, KeyK)
EnvFileK == Namespaced(StrDotEnv, KeyK)
OsStar == Namespaced(StrOs, StrStar)

\* "# c", a new line, "K=b"
TextCommentKb == <<"#", " ", "c", "\n", "K", "=", "b">>
TextKa == <<"K", "=", "a">>

GetKeys == {KeyK, OsK, EnvFileK}
Defaults == {<<>>, <<ValD>>, <<Empty>>}
SetValues == {ValA, Empty}
UnsetArgs == {<<KeyK>>, <<OsK>>, <<EnvFileK>>}
ClearArgs == {<<>>, <<KeyK>>, <<KeyJ>>}
ClearUnsafeArgs == {<<OsK>>, <<OsStar>>, <<KeyK>>}
SourceArgs == {<<StrOs>>, <<StrDotEnv>>, <<StrDotEnv, StrOs>>}

Init ==
  /\ LogInit
  /\ memory = <<>>
  /\ sources = initializeSmartDefaults(Empty, Empty)
  /\ env \in {<<>>, <<[key |-> KeyK, value |-> ValA]>>}
  /\ files \in {<<>>, StrDotEnv :> TextCommentKb}
  /\ last = NoCall

Next ==
  \/ \E key \in GetKeys, def \in Defaults : Get(key, def)
  \/ \E key \in GetKeys : MustGet(key)
  \/ \E key \in GetKeys, value \in SetValues : Set(key, value)
  \/ \E key \in GetKeys : Has(key)
  \/ \E names \in UnsetArgs : Unset(names)
  \/ \E patterns \in ClearArgs : Clear(patterns)
  \/ \E patterns \in ClearUnsafeArgs : ClearUnsafe(patterns)
  \/ \E given \in SourceArgs : SourceSet(given)
  \/ \E given \in SourceArgs : Len(sources) + Len(given) <= MaxSources /\ SourceAdd(given)
  \/ \E given \in SourceArgs : SourceRemove(given)
  \/ SourceClear
  \/ \E text \in {TextCommentKb, TextKa} : FileWrite(StrDotEnv, text)
  \/ FileRemove(StrDotEnv)

Spec == Init /\ [][Next]_vars

(***************************************************************************)
(* Properties of the resolver                                              *)
(***************************************************************************)
Unnamespaced(k) == ~includes(k, <<":">>)

\* what the backend of source src yields for k in the current state
Yields(src, k) == getFromNamespace(env, files, src, k)

\* the positions of the source list whose backend yields a non-empty value
Holders(k) == {i \in 1..Len(sources) : Yields(sources[i], k) # Empty}

\* the backends an I/O trace read or wrote, in order
SourceIO(io) == SelectSeq(io, LAMBDA ev : ev.on # "memory")

EventBackend(ev) == IF ev.on = "os" THEN StrOs ELSE ev.name

Provenance(src) == IF src = StrOs THEN StrOs ELSE pathAbsolute(src)

\* C1: an unnamespaced get of an uncached key reads the sources in list
\* order up to the first one that yields a non-empty value, returns that
\* value and caches it with that source's provenance; no later source's
\* value is returned while an earlier source holds a non-empty value.
C1_FirstSourceWins ==
  [][LET k == last'.args[1]
     IN (last'.op = "get" /\ Unnamespaced(k) /\ ~mapHas(memory, k) /\ Holders(k) # {})
        => \E i \in Holders(k) :
             /\ \A j \in Holders(k) : i <= j
             /\ last'.ret = Yields(sources[i], k)
             /\ ~last'.fatal
             /\ memoryGet(memory', k) = <<MemEntry(k, last'.ret, Provenance(sources[i]))>>
             /\ Len(SourceIO(last'.io)) = i
             /\ \A j \in 1..i : /\ SourceIO(last'.io)[j].kind = "read"
                                /\ EventBackend(SourceIO(last'.io)[j]) = sources[j]]_vars

\* C1 witness: the OS variable K is set to the empty string, so the walk
\* skipped it and resolved K from the .env file behind it
C1_Witness ==
  /\ last.op = "get" /\ last.args = <<KeyK>>
  /\ sources = <<StrOs, StrDotEnv>>
  /\ mapHas(env, KeyK) /\ runtimeEnv(env, KeyK) = Empty
  /\ last.ret = ValB
  /\ sourceOf(memory, KeyK) = pathAbsolute(StrDotEnv)
  /\ Len(SourceIO(last.io)) = 2

\* the cache value of a cached key
CachedValue(m, k) == memoryGet(m, k)[1].value

\* the step is an unnamespaced set(k), an unset naming k, or a clear (also
\* through clearUnsafe) whose patterns match k
Intervenes(k) ==
  \/ last'.op = "set" /\ last'.args[1] = k
  \/ last'.op = "unset" /\ \E i \in 1..Len(last'.args) : last'.args[i] = k
  \/ /\ last'.op \in {"clear", "clearUnsafe"}
     /\ \/ last'.op = "clear" /\ last'.args = <<>>
        \/ \E i \in 1..Len(last'.args) :
             Unnamespaced(last'.args[i]) /\ matchPattern(k, last'.args[i])

\* C2: sticky cache.  A cached non-empty value and its provenance survive
\* every step that is not an unnamespaced set, an unset or a matching clear
\* of that key (OS writes and deletes, file rewrites, namespaced sets,
\* clearUnsafe on OS keys, source-list changes), and get returns that value.
C2_StickyCache ==
  [][\A k \in {KeyK, KeyJ} :
       (mapHas(memory, k) /\ CachedValue(memory, k) # Empty /\ ~Intervenes(k))
       => /\ memoryGet(memory', k) = memoryGet(memory, k)
          /\ (last'.op = "get" /\ last'.args[1] = k)
             => (last'.ret = CachedValue(memory, k) /\ ~last'.fatal)]_vars

\* C2 witness: get returned the cached b with the file's provenance although
\* no source of the current list yields b any more
C2_Witness ==
  /\ last.op = "get" /\ last.args = <<KeyK>>
  /\ last.ret = ValB
  /\ sourceOf(memory, KeyK) = pathAbsolute(StrDotEnv)
  /\ sources # <<>>
  /\ \A i \in 1..Len(sources) : Yields(sources[i], KeyK) \notin {ValB, Empty}

\* two gets of the same unnamespaced key, with the same default, in a row
SameGetAgain ==
  /\ last.op = "get" /\ last'.op = "get"
  /\ last'.args = last.args /\ last'.def = last.def
  /\ Unnamespaced(last.args[1])

\* C3 (as claimed): the second of two gets in a row returns the same value
\* and is a cache hit without source I/O, for every key.
C3_Original ==
  [][SameGetAgain => (last'.ret = last.ret /\ SourceIO(last'.io) = <<>>)]_vars

\* C3 (amended): the second get returns the same value; it is a cache hit
\* without source I/O whenever the first call left the key in the cache,
\* which it does unless no source yields a value and no default was given;
\* in that case the second call returns the empty string again and walks
\* the whole source list again.
C3_SecondGetHitsCacheIfCached ==
  [][SameGetAgain =>
       LET k == last.args[1]
       IN /\ last'.ret = last.ret
          /\ mapHas(memory, k) => (SourceIO(last'.io) = <<>> /\ memory' = memory)
          /\ ~mapHas(memory, k) =>
               /\ last.def = <<>> /\ Holders(k) = {}
               /\ last'.ret = Empty /\ memory' = memory
               /\ Len(SourceIO(last'.io)) = Len(sources)]_vars

\* C3 witness: a get answered from the cache alone
C3_Witness ==
  /\ last.op = "get" /\ last.args = <<KeyK>>
  /\ mapHas(memory, KeyK) /\ last.ret = CachedValue(memory, KeyK)
  /\ last.ret # Empty
  /\ SourceIO(last.io) = <<>>

\* C4: an unnamespaced set(k, v) writes only the cache entry of k, as
\* {v, "set"}; a get(k) that follows returns v with sourceOf(k) = "set",
\* whatever the sources hold and whatever was cached before.
C4_SetThenGet ==
  [][/\ (last'.op = "set" /\ Unnamespaced(last'.args[1]))
        => /\ memoryGet(memory', last'.args[1])
                = <<MemEntry(last'.args[1], last'.args[2], StrSet)>>
           /\ \A k \in {KeyK, KeyJ} \ {last'.args[1]} :
                memoryGet(memory', k) = memoryGet(memory, k)
           /\ ~last'.fatal
           /\ UNCHANGED <<env, files, sources>>
     /\ (last.op = "set" /\ Unnamespaced(last.args[1])
         /\ last'.op = "get" /\ last'.args[1] = last.args[1])
        => /\ last'.ret = last.args[2]
           /\ sourceOf(memory', last.args[1]) = StrSet]_vars

\* C4 witness: get returned the value set, over a cached source value and
\* while the OS environment and the file hold other values
C4_Witness ==
  /\ last.op = "get" /\ last.args = <<KeyK>>
  /\ last.ret = ValA /\ sourceOf(memory, KeyK) = StrSet
  /\ sources = <<StrOs, StrDotEnv>>
  /\ mapHas(env, KeyK) /\ Yields(StrOs, KeyK) = Empty
  /\ Yields(StrDotEnv, KeyK) = ValB

\* C5: get of an uncached unnamespaced key that no source yields: with a
\* default d it returns d and caches {d, "default"}; without a default it
\* returns the empty string and leaves the cache as it was.
C5_DefaultCached ==
  [][LET k == last'.args[1]
     IN (last'.op = "get" /\ Unnamespaced(k) /\ ~mapHas(memory, k) /\ Holders(k) = {})
        => /\ ~last'.fatal
           /\ last'.def # <<>> =>
                /\ last'.ret = last'.def[1]
                /\ memoryGet(memory', k) = <<MemEntry(k, last'.def[1], StrDefault)>>
                /\ sourceOf(memory', k) = StrDefault
           /\ last'.def = <<>> =>
                /\ last'.ret = Empty
                /\ memory' = memory
                /\ ~mapHas(memory', k)]_vars

\* C5 witness: the default was returned and cached although sources are listed
C5_Witness ==
  /\ last.op = "get" /\ last.args = <<KeyK>> /\ last.def = <<ValD>>
  /\ last.ret = ValD
  /\ sourceOf(memory, KeyK) = StrDefault
  /\ sources = <<StrOs, StrDotEnv>>
  /\ Len(SourceIO(last.io)) = 2

\* C6 (as claimed): mustGet never ends fatally while some source of the
\* list holds a non-empty value for the key.
C6_Original ==
  [][(last'.op = "mustGet" /\ Unnamespaced(last'.args[1]) /\ Holders(last'.args[1]) # {})
     => ~last'.fatal]_vars

\* C6 (amended): mustGet(k) ends fatally exactly when get(k) returns the
\* empty string: when k is cached with an empty value, or k is uncached and
\* no source of the list yields a non-empty value.  Otherwise it returns
\* what get returns: the cached value, else the value of the first source
\* that yields one.  For an uncached k it never ends fatally while some
\* source holds a non-empty value.
C6_MustGetFatalIffEmpty ==
  [][LET k == last'.args[1]
     IN (last'.op = "mustGet" /\ Unnamespaced(k))
        => IF mapHas(memory, k)
           THEN /\ last'.fatal <=> CachedValue(memory, k) = Empty
                /\ last'.ret = CachedValue(memory, k)
                /\ memory' = memory
           ELSE /\ last'.fatal <=> Holders(k) = {}
                /\ ~last'.fatal =>
                     \E i \in Holders(k) :
                       /\ \A j \in Holders(k) : i <= j
                       /\ last'.ret = Yields(sources[i], k)
                       /\ CachedValue(memory', k) = last'.ret
                /\ last'.fatal => (last'.ret = Empty /\ memory' = memory)]_vars

\* C6 witness: mustGet ended fatally on a cached empty value while the OS
\* environment, first in the source list, holds a value for the key
C6_Witness ==
  /\ last.op = "mustGet" /\ last.args = <<KeyK>> /\ last.fatal
  /\ mapHas(memory, KeyK) /\ CachedValue(memory, KeyK) = Empty
  /\ sources # <<>> /\ sources[1] = StrOs
  /\ Yields(StrOs, KeyK) = ValA

\* C9: a namespaced get("ns:k", d) reads backend ns and nothing else (not
\* the cache, not the other sources), returns the backend's non-empty value,
\* else d, else the empty string, and leaves the cache unchanged.
C9_NamespacedGet ==
  [][\A ns \in {StrOs, StrDotEnv}, k \in {KeyK} :
       (last'.op = "get" /\ last'.args[1] = Namespaced(ns, k))
       => /\ ~last'.fatal
          /\ last'.ret = IF Yields(ns, k) # Empty THEN Yields(ns, k)
                         ELSE IF last'.def # <<>> THEN last'.def[1]
                         ELSE Empty
          /\ memory' = memory
          /\ Len(last'.io) = 1
          /\ last'.io[1].kind = "read" /\ last'.io[1].on # "memory"
          /\ EventBackend(last'.io[1]) = ns
          /\ UNCHANGED <<env, files, sources>>]_vars

\* C9 witness: get("os:K", d) returned d and cached nothing, although the
\* cache holds a for K and the .env file of the source list holds b
C9_Witness ==
  /\ last.op = "get" /\ last.args = <<OsK>> /\ last.def = <<ValD>>
  /\ last.ret = ValD
  /\ mapHas(memory, KeyK) /\ CachedValue(memory, KeyK) = ValA
  /\ sourceOf(memory, KeyK) = StrSet
  /\ \E i \in 1..Len(sources) : sources[i] = StrDotEnv
  /\ Yields(StrDotEnv, KeyK) = ValB

(***************************************************************************)
(* The construction specification: the store is built with the roots that  *)
(* findMonorepoRoot and findProjectRoot discovered, and the source list    *)
(* stays the default one; the OS environment and the three .env files each *)
(* define K with a value of their own, or not at all.                      *)
(***************************************************************************)
RootM == <<"/", "m">>
RootA == <<"/", "m", "/", "a">>
MonoEnv == pathJoin(RootM, StrDotEnv)
ProjectEnv == pathJoin(RootA, StrDotEnv)

ValO == <<"o">>
TextKl == <<"K", "=", "l">>
TextKm == <<"K", "=", "m">>
TextKp == <<"K", "=", "p">>

\* the text each .env file holds when it exists
OwnText == (StrDotEnv :> TextKl) @@ (MonoEnv :> TextKm) @@ (ProjectEnv :> TextKp)

InitDefaults ==
  /\ LogInit
  /\ memory = <<>>
  /\ \E monorepoRoot \in {Empty, RootM}, projectRoot \in {Empty, RootM, RootA} :
       sources = initializeSmartDefaults(monorepoRoot, projectRoot)
  /\ env \in {<<>>, <<[key |-> KeyK, value |-> ValO]>>}
  /\ \E present \in SUBSET {StrDotEnv, MonoEnv, ProjectEnv} :
       files = [p \in present |-> OwnText[p]]
  /\ last = NoCall

NextDefaults ==
  \/ \E def \in Defaults : Get(KeyK, def)
  \/ MustGet(KeyK)
  \/ Unset(<<KeyK>>)
  \/ RuntimeSetEnv(KeyK, ValO)
  \/ RuntimeDeleteEnv(KeyK)
  \/ \E path \in {StrDotEnv, MonoEnv, ProjectEnv} : FileWrite(path, OwnText[path])
  \/ \E path \in {StrDotEnv, MonoEnv, ProjectEnv} : FileRemove(path)

SpecDefaults == InitDefaults /\ [][NextDefaults]_vars

InSources(src) == \E i \in 1..Len(sources) : sources[i] = src

\* the value the claimed priority (local .env, then monorepo .env, then the
\* OS environment) gives K
ClaimedPriorityValue ==
  IF Yields(StrDotEnv, KeyK) # Empty THEN Yields(StrDotEnv, KeyK)
  ELSE IF InSources(ProjectEnv) /\ Yields(ProjectEnv, KeyK) # Empty
  THEN Yields(ProjectEnv, KeyK)
  ELSE IF InSources(MonoEnv) /\ Yields(MonoEnv, KeyK) # Empty
  THEN Yields(MonoEnv, KeyK)
  ELSE Yields(StrOs, KeyK)

\* C7 (as claimed): with the default source list an uncached get(K) resolves
\* to the local .env value if there is one, else to the monorepo .env value,
\* and to the OS value only when no file defines K.
C7_Original ==
  [][(last'.op = "get" /\ last'.args = <<KeyK>> /\ last'.def = <<>>
      /\ ~mapHas(memory, KeyK))
     => last'.ret = ClaimedPriorityValue]_vars

(***************************************************************************)
(* The key specification: a key is drawn from every string over ':', 'a'   *)
(* and 'b' up to a length (and the keys of the resolver specification),    *)
(* and every operation that takes a key is called with it.                 *)
(***************************************************************************)
\* the longest key drawn
MaxKeyLen == 4

KeyAlphabet == {":", "a", "b"}

\* every string over the alphabet of length at most n
RECURSIVE Strings(_, _)
Strings(alphabet, n) ==
  IF n = 0 THEN {<<>>}
  ELSE LET shorter == Strings(alphabet, n - 1)
       IN shorter \cup {Append(str, c) : str \in {x \in shorter : Len(x) = n - 1},
                                         c \in alphabet}

KeyABC == <<"a", ":", "b", ":", "c">>

DrawnKeys == Strings(KeyAlphabet, MaxKeyLen) \cup GetKeys \cup {KeyABC}

InitParse ==
  /\ LogInit
  /\ memory \in {<<>>, <<MemEntry(KeyK, ValA, StrSet)>>}
  /\ sources = initializeSmartDefaults(Empty, Empty)
  /\ env = <<[key |-> KeyK, value |-> ValA]>>
  /\ files = StrDotEnv :> TextCommentKb
  /\ \E key \in DrawnKeys : last = [NoCall EXCEPT !.args = <<key>>]

NextParse ==
  \/ ParseKey(last.args[1])
  \/ \E def \in Defaults : Get(last.args[1], def)
  \/ MustGet(last.args[1])
  \/ Set(last.args[1], ValB)
  \/ Has(last.args[1])
  \/ Unset(<<last.args[1]>>)
  \/ CallInt(last.args[1], 0)
  \/ CallBool(last.args[1], FALSE)
  \/ CallFloat(last.args[1], <<"0">>)

SpecParse == InitParse /\ [][NextParse]_vars

ColonsAt(k) == {i \in 1..Len(k) : k[i] = ":"}

\* the key starts with ':', contains '::', or the text before or after its
\* first colon is empty
MalformedKey(k) ==
  \/ k # <<>> /\ k[1] = ":"
  \/ \E i \in ColonsAt(k) : i + 1 \in ColonsAt(k)
  \/ \E i \in ColonsAt(k) : (\A j \in ColonsAt(k) : i <= j) /\ (i = 1 \/ i = Len(k))

KeyOps == {"parseKey", "get", "set", "has", "unset", "mustGet", "int", "bool", "float"}

\* C8: parseKey ends fatally on every malformed key, returns (a, b) for a
\* key a:b with one colon and two non-empty parts, and ("", key) for a key
\* without colon; get, set, has, unset, mustGet, int, bool and float called
\* with a malformed key end fatally without having read or written the
\* cache, the OS environment or a file.
C8_MalformedKeyFatal ==
  [][LET k == last'.args[1]
     IN last'.op \in KeyOps
        => /\ MalformedKey(k)
              => /\ last'.fatal
                 /\ last'.io = <<>>
                 /\ UNCHANGED <<memory, env, files, sources>>
           /\ last'.op = "parseKey"
              => /\ ColonsAt(k) = {} => (~last'.fatal /\ last'.ret = <<Empty, k>>)
                 /\ (Cardinality(ColonsAt(k)) = 1 /\ ~MalformedKey(k))
                    => /\ ~last'.fatal
                       /\ \E i \in ColonsAt(k) :
                            last'.ret = <<SubSeq(k, 1, i - 1), SubSeq(k, i + 1, Len(k))>>]_vars

\* C8 witness: set("a:", ...) ended fatally with the store, which holds K
\* in the cache, the environment and the file, untouched
C8_Witness ==
  /\ last.op = "set" /\ last.args[1] = <<"a", ":">>
  /\ last.fatal /\ last.io = <<>>
  /\ mapHas(memory, KeyK) /\ mapHas(env, KeyK) /\ fileExists(files, StrDotEnv)

(***************************************************************************)
(* The file specification: values over 'a', '=' and ' ' up to a length, and *)
(* a value in double quotes, are written to the local .env file under one   *)
(* key and read back.                                                       *)
(***************************************************************************)
\* the longest value written
MaxValLen == 2

ValAlphabet == {"a", "=", " "}

\* "a" with its double quotes
ValQuoted == <<"\"", "a", "\"">>

\* a value of two lines
ValTwoLines == <<"a", "\n", "b">>

FileValues == Strings(ValAlphabet, MaxValLen) \cup {ValQuoted}

EnvFileJ == Namespaced(StrDotEnv, KeyJ)

\* the line K = 'a=b'
TextKab == <<"K", " ", "=", " ", "'", "a", "=", "b", "'">>

\* a comment, a blank line, a comment
TextCommentsOnly == <<"#", "c", "\n", "\n", "#", "d">>

\* K defined on two lines, around another key, a blank line and a comment:
\* " K=a", "J=b", "", "# c", "K = c"
TextTwice == <<" ", "K", "=", "a", "\n", "J", "=", "b", "\n", "\n",
               "#", " ", "c", "\n", "K", " ", "=", " ", "c">>

FileTexts == {TextKab, TextCommentsOnly, TextTwice}

InitFile ==
  /\ LogInit
  /\ memory = <<>>
  /\ sources = initializeSmartDefaults(Empty, Empty)
  /\ env = <<>>
  /\ files \in {<<>>, StrDotEnv :> TextCommentKb}
  /\ last = NoCall

\* the value of two lines is written to a new file only: every later set of
\* it would add a line to the file
NextFile ==
  \/ \E value \in FileValues : Set(EnvFileK, value)
  \/ ~fileExists(files, StrDotEnv) /\ Set(EnvFileK, ValTwoLines)
  \/ Set(EnvFileJ, ValA)
  \/ \E key \in {EnvFileK, EnvFileJ} : Get(key, <<>>)
  \/ Unset(<<EnvFileK>>)
  \/ \E text \in FileTexts : FileWrite(StrDotEnv, text)
  \/ FileRemove(StrDotEnv)

SpecFile == InitFile /\ [][NextFile]_vars

\* C10: after set(".env:K", v) with a non-empty v, get(".env:K") returns
\* exactly v.
C10_Original ==
  [][(/\ last.op = "set" /\ ~last.fatal
      /\ last.args[1] = EnvFileK /\ last.args[2] # Empty
      /\ last'.op = "get" /\ last'.args = <<EnvFileK>>)
     => last'.ret = last.args[2]]_vars

(***************************************************************************)
(* The matcher specification: a key and a pattern are drawn from every     *)
(* string over '*', 'a' and 'b' up to a length, and matched.               *)
(***************************************************************************)
\* the longest key and pattern matched
MaxPatLen == 3

PatAlphabet == {"*", "a", "b"}

MatchPattern(key, pattern) ==
  /\ last' = Record("matchPattern", <<key, pattern>>, <<>>, matchPattern(key, pattern),
                    FALSE, <<>>)
  /\ UNCHANGED <<memory, sources, env, files>>
  /\ UNCHANGED logVars

InitMatch ==
  /\ LogInit
  /\ memory = <<>>
  /\ sources = initializeSmartDefaults(Empty, Empty)
  /\ env = <<>>
  /\ files = <<>>
  /\ \E key \in Strings(PatAlphabet, MaxPatLen), pattern \in Strings(PatAlphabet, MaxPatLen) :
       last = [NoCall EXCEPT !.args = <<key, pattern>>, !.ret = FALSE]

NextMatch == MatchPattern(last.args[1], last.args[2])

SpecMatch == InitMatch /\ [][NextMatch]_vars

StarsAt(p) == {i \in 1..Len(p) : p[i] = "*"}

\* the glob-lite reference: "*", prefix*, *suffix, pre*post, else equality
GlobLite(key, p) ==
  IF p = <<"*">> THEN TRUE
  ELSE IF p # <<>> /\ p[Len(p)] = "*" /\ p[1] # "*"
  THEN Len(key) >= Len(p) - 1 /\ SubSeq(key, 1, Len(p) - 1) = SubSeq(p, 1, Len(p) - 1)
  ELSE IF p # <<>> /\ p[1] = "*" /\ p[Len(p)] # "*"
  THEN Len(key) >= Len(p) - 1
       /\ SubSeq(key, Len(key) - Len(p) + 2, Len(key)) = SubSeq(p, 2, Len(p))
  ELSE IF Cardinality(StarsAt(p)) = 1 /\ 1 \notin StarsAt(p) /\ Len(p) \notin StarsAt(p)
  THEN LET i == CHOOSE j \in StarsAt(p) : TRUE
       IN /\ Len(key) >= i - 1 /\ SubSeq(key, 1, i - 1) = SubSeq(p, 1, i - 1)
          /\ Len(key) >= Len(p) - i
          /\ SubSeq(key, Len(key) - (Len(p) - i) + 1, Len(key)) = SubSeq(p, i + 1, Len(p))
  ELSE key = p

GlobLiteTrailingStar(key, p) ==
  IF p # <<>> /\ p # <<"*">> /\ p[Len(p)] = "*"
  THEN Len(key) >= Len(p) - 1 /\ SubSeq(key, 1, Len(p) - 1) = SubSeq(p, 1, Len(p) - 1)
  ELSE GlobLite(key, p)

KeyKJ == <<"K", "J">>
PatKStar == <<"K", "*">>
PatStarJ == <<"*", "J">>
OsJ == Namespaced(StrOs, KeyJ)
OsKStar == Namespaced(StrOs, PatKStar)
OsStarJ == Namespaced(StrOs, PatStarJ)
InertK == Namespaced(<<"x">>, KeyK)

MalformedK == <<":", "K">>

ClearKeys == {KeyK, KeyKJ, KeyJ}

ClearLists ==
  {<<>>, <<KeyK>>, <<PatKStar>>, <<PatStarJ>>, <<KeyK, KeyJ>>,
   <<OsK>>, <<KeyK, OsK>>, <<PatKStar, EnvFileK>>}

ClearUnsafeLists ==
  {<<OsStar>>, <<OsK>>, <<OsKStar>>, <<OsStarJ>>, <<EnvFileK>>, <<InertK>>,
   <<PatKStar>>, <<OsJ, OsStar>>, <<KeyK, OsKStar, EnvFileK, OsJ>>,
   <<PatStarJ, MalformedK, OsK>>}

UnsetLists ==
  {<<KeyK>>, <<KeyK, OsJ>>, <<OsK, KeyJ, EnvFileK, KeyK>>, <<KeyJ, MalformedK, OsK>>,
   <<OsJ, InertK>>}

InitClear ==
  /\ LogInit
  /\ memory = <<>>
  /\ sources = initializeSmartDefaults(Empty, Empty)
  /\ env = <<[key |-> KeyK, value |-> ValA], [key |-> KeyKJ, value |-> ValA],
             [key |-> KeyJ, value |-> ValA]>>
  /\ files = StrDotEnv :> TextCommentKb
  /\ last = NoCall

NextClear ==
  \/ \E key \in ClearKeys : Set(key, ValB)
  \/ \E names \in UnsetLists : Unset(names)
  \/ \E patterns \in ClearLists : Clear(patterns)
  \/ \E patterns \in ClearUnsafeLists : ClearUnsafe(patterns)
  \/ \E key \in ClearKeys : RuntimeSetEnv(key, ValA)
  \/ SourceSet(<<StrOs, StrDotEnv>>)
  \/ SourceClear

SpecClear == InitClear /\ [][NextClear]_vars

\* the key matches at least one of the patterns (every key when there is none)
MatchesAny(key, patterns) ==
  patterns = <<>> \/ \E i \in 1..Len(patterns) : matchPattern(key, patterns[i])

HasColon(str) == \E i \in 1..Len(str) : str[i] = ":"

\* C12: clear never changes the OS environment, a file or the source list;
\* when a pattern contains ':' it ends fatally with no cache entry removed,
\* otherwise it removes exactly the cache keys matching at least one pattern
\* (every key when called without pattern).
C12_ClearMemoryOnly ==
  [][last'.op = "clear"
     => /\ UNCHANGED <<env, files, sources>>
        /\ IF \E i \in 1..Len(last'.args) : HasColon(last'.args[i])
           THEN last'.fatal /\ memory' = memory
           ELSE /\ ~last'.fatal
                /\ memory' = SelectSeq(memory, LAMBDA en : ~MatchesAny(en.key, last'.args))]_vars

\* C12 witness: clear("K", "os:K") ended fatally with K still cached
C12_Witness ==
  /\ last.op = "clear" /\ last.args = <<KeyK, OsK>>
  /\ last.fatal /\ mapHas(memory, KeyK) /\ mapHas(memory, KeyJ)

\* C13: clearUnsafe("os:*") ends fatally and deletes no OS variable;
\* clearUnsafe with a namespace other than "os" ends fatally and changes no
\* file; clearUnsafe("os:<pattern>") with another pattern deletes exactly
\* the OS variables whose names match it and leaves the cache unchanged.
C13_ClearUnsafe ==
  [][(last'.op = "clearUnsafe" /\ Len(last'.args) = 1)
     => LET pk == parseKey(last'.args[1])
        IN /\ last'.args[1] = OsStar
              => last'.fatal /\ UNCHANGED <<memory, env, files, sources>>
           /\ (~pk.fatal /\ pk.ns \notin {Empty, StrOs})
              => last'.fatal /\ UNCHANGED <<memory, env, files, sources>>
           /\ (~pk.fatal /\ pk.ns = StrOs /\ pk.key # StrStar)
              => /\ ~last'.fatal
                 /\ env' = SelectSeq(env, LAMBDA en : ~matchPattern(en.key, pk.key))
                 /\ UNCHANGED <<memory, files, sources>>]_vars

\* C13 witness: clearUnsafe("os:*") ended fatally with the three variables
\* still in the environment and a cached key
C13_Witness ==
  /\ last.op = "clearUnsafe" /\ last.args = <<OsStar>> /\ last.fatal
  /\ Len(env) = 3 /\ memory # <<>>

\* C13 witness of a deletion: clearUnsafe("os:K*") left only J
C13_WitnessDeleted ==
  /\ last.op = "clearUnsafe" /\ last.args = <<OsKStar>> /\ ~last.fatal
  /\ mapKeys(env) = <<KeyJ>> /\ memory # <<>>

(***************************************************************************)
(* The bool specification: the OS variable K holds one of the eight words  *)
(* in any mix of upper and lower case, or another text, or is not set, and *)
(* is read as a boolean, with and without namespace.                       *)
(***************************************************************************)
UpperOf(c) ==
  IF \E j \in 1..Len(LowerCase) : LowerCase[j] = c
  THEN UpperCase[CHOOSE j \in 1..Len(LowerCase) : LowerCase[j] = c]
  ELSE c

\* v is the word w in some mix of upper and lower case
SpelledAs(v, w) == Len(v) = Len(w) /\ \A i \in 1..Len(w) : v[i] \in {w[i], UpperOf(w[i])}

Spellings(w) == {v \in [1..Len(w) -> {w[i] : i \in 1..Len(w)} \cup {UpperOf(w[i]) : i \in 1..Len(w)}] :
                   SpelledAs(v, w)}

TrueWords == {StrTrue, StrOne, StrYes, StrOn}
FalseWords == {StrFalse, StrZero, StrNo, StrOff}

OtherTexts == {<<"m", "a", "y", "b", "e">>, <<"2">>, <<"t", "r", "u">>, <<"o", "n", " ">>,
               <<"y">>, Empty}

BoolTexts == UNION {Spellings(w) : w \in TrueWords \cup FalseWords} \cup OtherTexts

InitBool ==
  /\ LogInit
  /\ memory = <<>>
  /\ sources = initializeSmartDefaults(Empty, Empty)
  /\ env \in {<<>>} \cup {<<[key |-> KeyK, value |-> v]>> : v \in BoolTexts}
  /\ files = <<>>
  /\ last = [NoCall EXCEPT !.ret = FALSE]

NextBool ==
  \/ \E key \in {KeyK, OsK}, d \in BOOLEAN : CallBool(key, d)
  \/ \E value \in {Empty, StrOn} : Set(KeyK, value)
  \/ Unset(<<KeyK>>)
  \/ Get(KeyK, <<StrOff>>)

SpecBool == InitBool /\ [][NextBool]_vars

\* what bool makes of a non-empty text
BoolReading(v) ==
  IF \E w \in TrueWords : SpelledAs(v, w) THEN "true"
  ELSE IF \E w \in FalseWords : SpelledAs(v, w) THEN "false"
  ELSE "fatal"

\* bool(k, d) returned d for an empty get(k), else read the text
BoolAnswer ==
  LET g == get(memory, sources, env, files, last'.args[1], <<>>).ret
  IN IF g = Empty THEN ~last'.fatal /\ last'.ret = last'.def[1]
     ELSE CASE BoolReading(g) = "true" -> ~last'.fatal /\ last'.ret = TRUE
            [] BoolReading(g) = "false" -> ~last'.fatal /\ last'.ret = FALSE
            [] OTHER -> last'.fatal

\* C14: bool(k, d) returns d exactly when get(k) is the empty string,
\* otherwise true for true/1/yes/on, false for false/0/no/off in any case,
\* and ends fatally for any other value; it never writes the cache.
C14_Original ==
  [][last'.op = "bool" => (memory' = memory /\ BoolAnswer)]_vars

\* C14 (amended): the same answers; bool never caches the default: when it
\* returned the default the cache is unchanged, so sourceOf(k) is empty if
\* it was; a value found in a source is cached by the get inside bool.
C14_BoolDefaultNotCached ==
  [][last'.op = "bool"
     => LET g == get(memory, sources, env, files, last'.args[1], <<>>)
        IN /\ BoolAnswer
           /\ g.ret = Empty => memory' = memory
           /\ (g.ret = Empty /\ sourceOf(memory, last'.args[1]) = Empty)
              => sourceOf(memory', last'.args[1]) = Empty
           /\ (g.ret # Empty /\ last'.args[1] = KeyK) => CachedValue(memory', KeyK) = g.ret]_vars

\* C14 witness: bool("K", false) read the uncached OS value "On" as true
C14_Witness ==
  /\ last.op = "bool" /\ last.args = <<KeyK>> /\ last.def = <<FALSE>>
  /\ runtimeEnv(env, KeyK) = <<"O", "n">>
  /\ last.ret = TRUE /\ ~last.fatal
  /\ sourceOf(memory, KeyK) = StrOs

(***************************************************************************)
(* The provenance specification: K in the OS environment, in the local     *)
(* .env file or nowhere, read with its source with and without namespace   *)
(* and default.                                                            *)
(***************************************************************************)
SourceKeys == {KeyK, OsK, EnvFileK}

InitSource ==
  /\ LogInit
  /\ memory = <<>>
  /\ sources = initializeSmartDefaults(Empty, Empty)
  /\ env \in {<<>>, <<[key |-> KeyK, value |-> ValA]>>}
  /\ files \in {<<>>, StrDotEnv :> TextCommentKb}
  /\ last = NoCall

NextSource ==
  \/ \E key \in SourceKeys, def \in Defaults : GetWithSource(key, def)
  \/ Set(KeyK, ValA)
  \/ Unset(<<KeyK>>)
  \/ Unset(<<OsK>>)
  \/ FileRemove(StrDotEnv)

SpecSource == InitSource /\ [][NextSource]_vars

\* the default was returned because no backend the call consults holds the key
DefaultReturned(key, def) ==
  LET pk == parseKey(key)
  IN /\ def # <<>>
     /\ IF pk.ns # Empty THEN getFromNamespace(env, files, pk.ns, pk.key) = Empty
        ELSE ~mapHas(memory, key) /\ Holders(key) = {}

\* C15: getWithSource(key, d) returns the value and where it came from: for
\* an unnamespaced key the cached provenance, for a namespaced key found in
\* its backend the namespace, and "default" whenever the value returned is
\* the default d because no backend held the key, with or without namespace.
C15_Original ==
  [][(last'.op = "getWithSource" /\ ~last'.fatal /\ last'.ret[1] # Empty)
     => LET key == last'.args[1]
            pk == parseKey(key)
        IN /\ pk.ns = Empty => last'.ret[2] = sourceOf(memory', key)
           /\ (pk.ns # Empty /\ getFromNamespace(env, files, pk.ns, pk.key) # Empty)
              => last'.ret = <<getFromNamespace(env, files, pk.ns, pk.key), pk.ns>>
           /\ DefaultReturned(key, last'.def)
              => last'.ret = <<last'.def[1], StrDefault>>]_vars

(***************************************************************************)
(* The logging specification: warnOnce called with more distinct messages  *)
(* than its cache holds, under the levels LOG_LEVEL can select.            *)
(***************************************************************************)
MaxPrinted == CacheCapacity + 2

\* n times the letter a
Word(n) == [i \in 1..n |-> "a"]

\* one word each, and the message "a a" as two arguments and as one
MessageLists ==
  {<<Word(n)>> : n \in 1..(CacheCapacity + 1)}
    \cup {<<Word(1), Word(1)>>, <<<<"a", " ", "a">>>>}

WarnOnce(messages) ==
  LET key == join(messages, " ")
  IN /\ Len(console) < MaxPrinted
     /\ IF ~lruHas(warnOnceCache, key)
        THEN /\ warnOnceCache' = lruSet(warnOnceCache, key)
             /\ console' = warn(console, currentLogLevel, messages)
        ELSE UNCHANGED <<warnOnceCache, console>>
     /\ last' = Record("warnOnce", messages, <<>>, Empty, FALSE, <<>>)
     /\ UNCHANGED <<memory, sources, env, files, currentLogLevel>>

InitLog ==
  /\ memory = <<>>
  /\ sources = initializeSmartDefaults(Empty, Empty)
  /\ env = <<>>
  /\ files = <<>>
  /\ last = NoCall
  /\ warnOnceCache = <<>>
  /\ console = <<>>
  /\ currentLogLevel \in {LevelError, LevelWarn, LevelInfo}

NextLog == \E messages \in MessageLists : WarnOnce(messages)

SpecLog == InitLog /\ [][NextLog]_vars

ReprintedAfterEviction(out) ==
  \A i, j \in 1..Len(out) :
    (i < j /\ out[i] = out[j])
      => Cardinality({out[n] : n \in (i + 1)..(j - 1)} \ {out[i]}) >= CacheCapacity

C17_Original ==
  [][LET k == last'.args[1]
     IN (/\ last'.op = "parseKey"
         /\ Cardinality(ColonsAt(k)) >= 2
         /\ 1 \notin ColonsAt(k)
         /\ \A i \in ColonsAt(k) : i + 1 \notin ColonsAt(k))
        => \E i \in ColonsAt(k) :
             /\ \A j \in ColonsAt(k) : i <= j
             /\ ~last'.fatal
             /\ last'.ret = <<SubSeq(k, 1, i - 1), SubSeq(k, i + 1, Len(k))>>]_vars

(***************************************************************************)
(* The backend specification: the key K read, written, tested and listed   *)
(* under "os", under namespaces with a dot at the start, a dot inside and  *)
(* a slash, and under a namespace with neither.                            *)
(***************************************************************************)
NsDotFirst == <<".", "e">>
NsDotInside == <<"c", ".", "e">>
NsSlash == <<"d", "/", "e">>
NsPlain == <<"x">>

Namespaces == {StrOs, NsDotFirst, NsDotInside, NsSlash, NsPlain}

InitBackend ==
  /\ LogInit
  /\ memory = <<>>
  /\ sources = initializeSmartDefaults(Empty, Empty)
  /\ env \in {<<>>, <<[key |-> KeyK, value |-> ValA]>>}
  /\ files \in {<<>>, NsDotFirst :> TextCommentKb}
  /\ last = NoCall

NextBackend ==
  \/ \E ns \in Namespaces : Set(Namespaced(ns, KeyK), ValA)
  \/ \E ns \in Namespaces, def \in Defaults : Get(Namespaced(ns, KeyK), def)
  \/ \E ns \in Namespaces : Has(Namespaced(ns, KeyK))
  \/ \E ns \in Namespaces : Keys(<<Namespaced(ns, StrStar)>>)
  \/ Unset(<<OsK>>)

SpecBackend == InitBackend /\ [][NextBackend]_vars

\* the namespace is not "os" and contains '.' or '/'
FileShaped(ns) == ns # StrOs /\ \E i \in 1..Len(ns) : ns[i] \in {".", "/"}

OrDefault(value, def) ==
  IF value # Empty THEN value ELSE IF def # <<>> THEN def[1] ELSE Empty

\* C18: "os" selects the OS environment, every other namespace containing
\* '.' or '/' selects the file backend for get, set, has and keys, and only
\* the namespaces that are neither are inert: reads find nothing and set
\* does nothing.
C18_Original ==
  [][LET pk == parseKey(last'.args[1])
         inFile == getFromFile(files, pk.ns, pk.key)
         fileKeys == mapKeys(parseEnvFile(files, pk.ns, pk.key, <<>>, TRUE))
     IN (last'.op \in {"get", "set", "has", "keys"} /\ ~pk.fatal /\ pk.ns # Empty)
        => /\ ~last'.fatal
           /\ last'.op = "get"
              => last'.ret = OrDefault(IF pk.ns = StrOs THEN runtimeEnv(env, pk.key)
                                       ELSE IF FileShaped(pk.ns) THEN inFile
                                       ELSE Empty, last'.def)
           /\ last'.op = "set"
              => /\ env' = IF pk.ns = StrOs THEN runtimeSetEnv(env, pk.key, last'.args[2])
                           ELSE env
                 /\ files' = IF FileShaped(pk.ns)
                             THEN setToFile(files, pk.ns, pk.key, last'.args[2])
                             ELSE files
           /\ last'.op = "has"
              => last'.ret = IF pk.ns = StrOs THEN runtimeHasEnv(env, pk.key)
                             ELSE IF FileShaped(pk.ns) THEN inFile # Empty
                             ELSE FALSE
           /\ last'.op = "keys"
              => last'.ret = IF pk.ns = StrOs
                             THEN [i \in 1..Len(env) |-> Namespaced(StrOs, env[i].key)]
                             ELSE IF FileShaped(pk.ns)
                             THEN [i \in 1..Len(fileKeys) |-> Namespaced(pk.ns, fileKeys[i])]
                             ELSE <<>>]_vars

\* the text of a data line before and after its first '='
BeforeFirst(line, c) ==
  IF \E i \in 1..Len(line) : line[i] = c
  THEN SubSeq(line, 1, (CHOOSE i \in 1..Len(line) :
                          line[i] = c /\ \A j \in 1..(i - 1) : line[j] # c) - 1)
  ELSE line

AfterFirst(line, c) ==
  LET i == CHOOSE i \in 1..Len(line) : line[i] = c /\ \A j \in 1..(i - 1) : line[j] # c
  IN SubSeq(line, i + 1, Len(line))

\* the value of the first data line of the lines that defines key: the whole
\* text after the first '=', trimmed, one pair of quotes removed
RECURSIVE ValueAfterFirstEquals(_, _)
ValueAfterFirstEquals(lines, key) ==
  IF lines = <<>> THEN Empty
  ELSE LET line == trim(Head(lines))
       IN IF /\ line # Empty /\ line[1] # "#"
             /\ \E i \in 1..Len(line) : line[i] = "="
             /\ trim(BeforeFirst(line, "=")) = key
          THEN unquote(trim(AfterFirst(line, "=")))
          ELSE ValueAfterFirstEquals(Tail(lines), key)

\* C19: the value the file backend returns for a key is the whole text
\* after the first '=' of the matching line, trimmed and with one pair of
\* surrounding quotes removed, also when it contains '='.
C19_Original ==
  [][(last'.op = "get" /\ last'.args[1] \in {EnvFileK, EnvFileJ}
      /\ fileExists(files, StrDotEnv))
     => last'.ret = ValueAfterFirstEquals(split(fileReadText(files, StrDotEnv), "\n"),
                                          parseKey(last'.args[1]).key)]_vars

\* the line is a data line whose key is key
DefinesKey(line, key) ==
  LET t == trim(line)
  IN t # Empty /\ t[1] # "#" /\ trim(BeforeFirst(t, "=")) = key

\* key=value, the value in double quotes when it contains a space, a tab or
\* a new line
Assignment(key, value) ==
  key \o <<"=">> \o
    (IF \E i \in 1..Len(value) : value[i] \in {" ", "\t", "\n"}
     THEN <<"\"">> \o value \o <<"\"">>
     ELSE value)

\* the lines set leaves: the old lines in order, those defining the key
\* replaced, and one new line at the end if none defined it
LinesAfterSet(old, key, value) ==
  LET kept == [i \in 1..Len(old) |->
                 IF DefinesKey(old[i], key) THEN Assignment(key, value) ELSE old[i]]
  IN IF \E i \in 1..Len(old) : DefinesKey(old[i], key)
     THEN kept
     ELSE Append(kept, Assignment(key, value))

\* C20: set("<file>:k", v) writes the old lines of the file in their order,
\* every line not defining k verbatim and every data line whose key is k
\* replaced by k=v (quoted if v contains whitespace), with exactly one new
\* line k=v at the end if and only if no line defined k; a file of comments
\* and blank lines gets one new line, a missing file becomes that one line.
C20_FileRewrite ==
  [][(last'.op = "set" /\ last'.args[1] \in {EnvFileK, EnvFileJ})
     => LET key == parseKey(last'.args[1]).key
            old == IF fileExists(files, StrDotEnv)
                   THEN split(fileReadText(files, StrDotEnv), "\n") ELSE <<>>
        IN /\ ~last'.fatal
           /\ files' = (StrDotEnv :> join(LinesAfterSet(old, key, last'.args[2]), "\n"))
           /\ ~fileExists(files, StrDotEnv)
              => files'[StrDotEnv] = Assignment(key, last'.args[2])
           /\ UNCHANGED <<memory, env, sources>>]_vars

\* C20 witness: set(".env:K", "a ") on the file with K on two lines left
\* both lines replaced by K="a " and the other lines as they were
C20_Witness ==
  /\ last.op = "set" /\ last.args = <<EnvFileK, <<"a", " ">>>>
  /\ fileExists(files, StrDotEnv)
  /\ split(fileReadText(files, StrDotEnv), "\n")
       = << <<"K", "=", "\"", "a", " ", "\"">>, <<"J", "=", "b">>, <<>>,
            <<"#", " ", "c">>, <<"K", "=", "\"", "a", " ", "\"">> >>

(***************************************************************************)
(* Properties of unset and of the provenance, under the resolver           *)
(* specification                                                           *)
(***************************************************************************)
\* what a get of the uncached key k finds in the source list
Resolved(k) ==
  IF Holders(k) = {} THEN Empty
  ELSE Yields(sources[CHOOSE i \in Holders(k) : \A j \in Holders(k) : i <= j], k)

\* C21: unset(k) without namespace removes only the cache entry of k, and a
\* get(k) that follows resolves k from the source list again; unset("os:k")
\* deletes the OS variable and leaves the cache as it is; unset with another
\* namespace ends fatally and changes no file.
C21_Unset ==
  [][/\ (last'.op = "unset" /\ Len(last'.args) = 1)
        => LET pk == parseKey(last'.args[1])
           IN /\ pk.ns = Empty
                 => /\ ~last'.fatal
                    /\ memory' = SelectSeq(memory, LAMBDA en : en.key # pk.key)
                    /\ UNCHANGED <<env, files, sources>>
              /\ pk.ns = StrOs
                 => /\ ~last'.fatal
                    /\ env' = SelectSeq(env, LAMBDA en : en.key # pk.key)
                    /\ UNCHANGED <<memory, files, sources>>
              /\ pk.ns \notin {Empty, StrOs}
                 => last'.fatal /\ UNCHANGED <<memory, env, files, sources>>
     /\ (/\ last.op = "unset" /\ last.args = <<KeyK>>
         /\ last'.op = "get" /\ last'.args = <<KeyK>> /\ last'.def = <<>>)
        => last'.ret = Resolved(KeyK)]_vars

\* C21 witness: unset("os:K") deleted the OS variable that the cache entry
\* of K came from, and the entry is still there
C21_Witness ==
  /\ last.op = "unset" /\ last.args = <<OsK>> /\ ~last.fatal
  /\ ~mapHas(env, KeyK)
  /\ mapHas(memory, KeyK) /\ sourceOf(memory, KeyK) = StrOs

IsAbsolutePath(p) == p # <<>> /\ p[1] = "/"

\* every cache entry's source is "os", "default", "set" or an absolute path
ProvenanceKnown(m) ==
  \A i \in 1..Len(m) :
    m[i].source \in {StrOs, StrDefault, StrSet} \/ IsAbsolutePath(m[i].source)

EnvFileStar == Namespaced(StrDotEnv, StrStar)
EnvFileKJ == Namespaced(StrDotEnv, KeyKJ)

\* "J=b", "K=a"
TextJK == <<"J", "=", "b", "\n", "K", "=", "a">>

\* a line that names K without '=', then "KJ=b"
TextBare == <<"K", "\n", "K", "J", "=", "b">>

KeysTexts == {TextJK, TextTwice, TextBare}

KeysPatterns ==
  {<<StrStar>>, <<PatKStar>>, <<KeyK>>, <<OsStar>>, <<EnvFileStar>>, <<EnvFileK>>,
   <<StrStarStar>>, <<PatKStar, StrStar>>, <<OsK, PatStarJ>>, <<InertK>>}

KeysSourceLists == {<<StrOs, StrDotEnv>>, <<StrDotEnv, StrOs>>, <<StrOs>>}

InitKeys ==
  /\ LogInit
  /\ memory = <<>>
  /\ sources = initializeSmartDefaults(Empty, Empty)
  /\ env \in {<<>>, <<[key |-> KeyK, value |-> ValA]>>}
  /\ files = StrDotEnv :> TextJK
  /\ last = NoCall

NextKeys ==
  \/ \E key \in {KeyK, KeyJ} : Set(key, ValB)
  \/ \E key \in {EnvFileK, EnvFileKJ} : Get(key, <<>>)
  \/ \E patterns \in KeysPatterns : Keys(patterns)
  \/ \E patterns \in KeysPatterns \cup {<<>>} : All(patterns)
  \/ Clear(<<>>)
  \/ \E key \in {KeyK, KeyKJ} : RuntimeSetEnv(key, ValA)
  \/ RuntimeDeleteEnv(KeyK)
  \/ \E text \in KeysTexts : FileWrite(StrDotEnv, text)
  \/ \E given \in KeysSourceLists : SourceSet(given)

SpecKeys == InitKeys /\ [][NextKeys]_vars

Range(seq) == {seq[i] : i \in 1..Len(seq)}

\* the key names backend ns holds: the names of the OS variables, or the text
\* before the first '=' of every data line of the file
BackendKeyNames(ns) ==
  IF ns = StrOs THEN {env[i].key : i \in 1..Len(env)}
  ELSE IF isFileNamespace(ns) /\ fileExists(files, ns)
  THEN LET lines == split(fileReadText(files, ns), "\n")
       IN {trim(BeforeFirst(trim(lines[i]), "=")) :
             i \in {j \in 1..Len(lines) : trim(lines[j]) # Empty /\ trim(lines[j])[1] # "#"}}
  ELSE {}

\* where keys meets name first for an unnamespaced pattern: 0 for the cache,
\* else the first position of the source list whose backend holds it
Origin(name) ==
  IF mapHas(memory, name) THEN 0
  ELSE CHOOSE i \in 1..Len(sources) :
         /\ name \in BackendKeyNames(sources[i])
         /\ \A j \in 1..(i - 1) : name \notin BackendKeyNames(sources[j])

\* the names keys owes for one pattern
KeysOwed(pattern) ==
  IF Unnamespaced(pattern)
  THEN {name \in Range(mapKeys(memory)) \cup
                 UNION {BackendKeyNames(sources[i]) : i \in 1..Len(sources)} :
          matchPattern(name, pattern)}
  ELSE LET ns == BeforeFirst(pattern, ":")
       IN {Namespaced(ns, name) : name \in {n \in BackendKeyNames(ns) :
                                              matchPattern(n, AfterFirst(pattern, ":"))}}

\* C23: keys never modifies the cache and returns no key twice; it returns
\* exactly the cache keys and the keys of every listed source that match an
\* unnamespaced pattern, the cache keys first and then the sources in list
\* order, and for a pattern "ns:p" exactly the matching keys of backend ns,
\* each as "ns:key".
C23_Keys ==
  [][(last'.op = "keys" /\ ~last'.fatal) =>
       LET ret == last'.ret
           patterns == last'.args
       IN /\ memory' = memory
          /\ \A i, j \in 1..Len(ret) : ret[i] = ret[j] => i = j
          /\ Range(ret) = UNION {KeysOwed(patterns[i]) : i \in 1..Len(patterns)}
          /\ (Len(patterns) = 1 /\ Unnamespaced(patterns[1])) =>
               \A i, j \in 1..Len(ret) : i < j => Origin(ret[i]) <= Origin(ret[j])]_vars

\* keys("*") has returned J of the cache, K of the file and KJ of the OS
\* environment, in that order, K being an OS variable too
C23_Witness ==
  /\ last.op = "keys" /\ last.args = <<StrStar>>
  /\ last.ret = <<KeyJ, KeyK, KeyKJ>>
  /\ sources = <<StrDotEnv, StrOs>>
  /\ mapKeys(memory) = <<KeyJ>>
  /\ mapHas(env, KeyK) /\ mapHas(env, KeyKJ)

\* the key names in the groups of a result of all
GroupNames(result) ==
  UNION {Range(mapKeys(result[g].value)) : g \in 1..Len(result)}

\* the keys of a result of keys, without their "ns:" prefix
BareNames(ks) ==
  {IF HasColon(ks[i]) THEN AfterFirst(ks[i], ":") ELSE ks[i] : i \in 1..Len(ks)}

\* C24: all(pattern) reports, in its groups, exactly the key names that
\* keys(pattern) returns in the same state of the cache, the OS environment
\* and the files.
C24_Original ==
  [][(last'.op = "all" /\ Len(last'.args) = 1 /\ ~last'.fatal) =>
       GroupNames(last'.ret)
         = BareNames(keys(memory, sources, env, files, last'.args).ret)]_vars

\* the same, for patterns other than "*:*"
C24_BareLine ==
  [][(last'.op = "all" /\ Len(last'.args) = 1 /\ ~last'.fatal
        /\ last'.args # <<StrStarStar>>) =>
       GroupNames(last'.ret)
         = BareNames(keys(memory, sources, env, files, last'.args).ret)]_vars

\* the same, for files whose data lines all hold an '='
C24_Elsewhere ==
  [][(last'.op = "all" /\ Len(last'.args) = 1 /\ ~last'.fatal
        /\ last'.args # <<StrStarStar>> /\ files[StrDotEnv] # TextBare) =>
       GroupNames(last'.ret)
         = BareNames(keys(memory, sources, env, files, last'.args).ret)]_vars

\* the value a result of all reports for key name in group ns, the empty
\* string when it reports none
Reported(result, ns, name) ==
  IF mapHas(result, ns) /\ mapHas(result[mapIndex(result, ns)].value, name)
  THEN LET group == result[mapIndex(result, ns)].value
       IN group[mapIndex(group, name)].value
  ELSE Empty

HasEquals(line) == \E i \in 1..Len(line) : line[i] = "="

\* the data lines of the .env file that define key name with an '='
Definitions(name) ==
  LET lines == split(fileReadText(files, StrDotEnv), "\n")
  IN {i \in 1..Len(lines) : DefinesKey(lines[i], name) /\ HasEquals(lines[i])}

\* C28: for a key k of a file, the value all("<file>:k") reports for k is the
\* value get("<file>:k") returns in the same state, also when the file
\* defines k on more than one line.
C28_Original ==
  [][(last'.op = "all" /\ last'.args \in {<<EnvFileK>>, <<EnvFileStar>>}) =>
       \A name \in {KeyK, KeyJ, KeyKJ} :
         (last'.args = <<EnvFileStar>> \/ name = KeyK) =>
           Reported(last'.ret, StrDotEnv, name)
             = get(memory, sources, env, files, Namespaced(StrDotEnv, name), <<>>).ret]_vars

\* the same, for the keys the file defines on one line at most
C28_OneLine ==
  [][(last'.op = "all" /\ last'.args \in {<<EnvFileK>>, <<EnvFileStar>>}) =>
       \A name \in {KeyK, KeyJ, KeyKJ} :
         ((last'.args = <<EnvFileStar>> \/ name = KeyK)
            /\ Cardinality(Definitions(name)) <= 1) =>
           Reported(last'.ret, StrDotEnv, name)
             = get(memory, sources, env, files, Namespaced(StrDotEnv, name), <<>>).ret]_vars

(***************************************************************************)
(* The dump specification: keys that hold one of the four sensitive words  *)
(* in some mix of case, and one that holds none, cached with values of two *)
(* to five characters and printed by dump.                                 *)
(***************************************************************************)
\* the most entries the cache holds in the dump specification
MaxEntries == 2

KeyAKeY == <<"a", "K", "e", "Y">>
KeySecret == <<"S", "E", "C", "R", "E", "T">>
KeyPassword == <<"P", "a", "s", "s", "w", "o", "r", "d", "1">>
KeyToken == <<"t", "o", "k", "e", "n">>
ValAb == <<"a", "b">>
ValAbcd == <<"a", "b", "c", "d">>
ValAbcde == <<"a", "b", "c", "d", "e">>

DumpKeys == {KeyAKeY, KeySecret, KeyPassword, KeyToken, KeyK}
DumpValues == {ValAb, ValAbcd, ValAbcde}

InitDump ==
  /\ LogInit
  /\ memory = <<>>
  /\ sources = initializeSmartDefaults(Empty, Empty)
  /\ env = <<>>
  /\ files = <<>>
  /\ last = NoCall

NextDump ==
  \/ \E key \in DumpKeys, value \in DumpValues :
       /\ Len(memory) < MaxEntries \/ mapHas(memory, key)
       /\ Set(key, value)
  \/ \E key \in DumpKeys : Unset(<<key>>)
  \/ Dump

SpecDump == InitDump /\ [][NextDump]_vars

\* the key name holds one of the four words, in any mix of case
Sensitive(key) ==
  \E w \in {<<"k", "e", "y">>, <<"s", "e", "c", "r", "e", "t">>,
            <<"p", "a", "s", "s", "w", "o", "r", "d">>, <<"t", "o", "k", "e", "n">>} :
    \E i \in 1..(Len(key) - Len(w) + 1) : SpelledAs(SubSeq(key, i, i + Len(w) - 1), w)

\* the text dump printed after "memory:<key>=" for the cache entry at position i
PrintedFor(io, i) == SubSeq(io[i].name, Len(StrMemory) + Len(memory[i].key) + 3,
                            Len(io[i].name))

\* C25: for every cache entry with a sensitive key, dump prints the first 4
\* characters of the value followed by "****", and exactly "****" when the
\* value is shorter than 5 characters.
C25_Original ==
  [][last'.op = "dump" =>
       /\ Len(last'.io) = Len(memory)
       /\ \A i \in 1..Len(memory) :
            Sensitive(memory[i].key) =>
              PrintedFor(last'.io, i)
                = IF Len(memory[i].value) < 5 THEN Mask
                  ELSE SubSeq(memory[i].value, 1, 4) \o Mask]_vars

\* the same, for the values of 5 characters and more; the other entries are
\* printed with the first 4 characters of "<value> [from: <source>]"
C25_AsPrinted ==
  [][last'.op = "dump" =>
       /\ Len(last'.io) = Len(memory)
       /\ \A i \in 1..Len(memory) :
            Sensitive(memory[i].key) =>
              PrintedFor(last'.io, i)
                = IF Len(memory[i].value) < 5
                  THEN SubSeq(memory[i].value \o <<" ", "[", "f", "r">>, 1, 4) \o Mask
                  ELSE SubSeq(memory[i].value, 1, 4) \o Mask]_vars

(***************************************************************************)
(* The export specification: two keys cached by set, from the OS           *)
(* environment and by default, with and without a space in the value,      *)
(* exported to a file and read back through the file's namespace.          *)
(***************************************************************************)
PathB == <<".", "b">>
ValSpaced == <<"a", " ", "b">>
ExportValues == {ValA, ValSpaced, Empty}

InitExport ==
  /\ LogInit
  /\ memory = <<>>
  /\ sources = initializeSmartDefaults(Empty, Empty)
  /\ env \in {<<>>, <<[key |-> KeyK, value |-> ValA]>>}
  /\ files = <<>>
  /\ last = NoCall

NextExport ==
  \/ \E key \in {KeyK, KeyJ}, value \in ExportValues : Set(key, value)
  \/ \E key \in {KeyK, KeyJ}, def \in Defaults : Get(key, def)
  \/ \E key \in {KeyK, KeyJ} : Get(Namespaced(PathB, key), <<>>)
  \/ \E key \in {KeyK, KeyJ} : Unset(<<key>>)
  \/ Export(PathB)

SpecExport == InitExport /\ [][NextExport]_vars

\* what get("<path>:k") returns in the state after the step
ReadBack(path, k) == get(memory', sources', env', files', Namespaced(path, k), <<>>).ret

\* C29: after export(path), get("<path>:k") returns exactly v for every cache
\* entry (k, v) with a non-empty v; the "# from: source" annotation and the
\* quotes are not part of the value read.
C29_Original ==
  [][last'.op = "export" =>
       \A i \in 1..Len(memory) :
         memory[i].value # Empty =>
           ReadBack(last'.args[1], memory[i].key) = memory[i].value]_vars

\* what is read back instead: the value as it was written, in its quotes if
\* it has any, two spaces and the annotation
C29_AsRead ==
  [][last'.op = "export" =>
       \A i \in 1..Len(memory) :
         memory[i].value # Empty =>
           ReadBack(last'.args[1], memory[i].key)
             = AfterFirst(Assignment(memory[i].key, memory[i].value), "=")
                 \o <<" ", " ", "#", " ", "f", "r", "o", "m", ":", " ">>
                 \o memory[i].source]_vars

CachedEmpty(m, k) == mapHas(m, k) /\ m[mapIndex(m, k)].value = Empty

\* C27: set(k, "") and get(k, "") on a key that is not cached and that no
\* source holds leave a cache entry for k with the empty value; while the
\* cache holds it, get(k, d) returns the empty string for every d, reads no
\* source and leaves the cache as it is, and has(k) is true; the entry stays
\* until a set, an unset or a clear.
C27_EmptyIsHit ==
  [][/\ (last'.op = "set" /\ Unnamespaced(last'.args[1]) /\ last'.args[2] = Empty) =>
          CachedEmpty(memory', last'.args[1])
     /\ (last'.op = "get" /\ Unnamespaced(last'.args[1]) /\ last'.def = <<Empty>>
           /\ ~mapHas(memory, last'.args[1]) /\ Holders(last'.args[1]) = {}) =>
          CachedEmpty(memory', last'.args[1])
     /\ (last'.op = "get" /\ Unnamespaced(last'.args[1])
           /\ CachedEmpty(memory, last'.args[1])) =>
          /\ last'.ret = Empty
          /\ ~last'.fatal
          /\ SourceIO(last'.io) = <<>>
          /\ memory' = memory
     /\ (last'.op = "has" /\ Unnamespaced(last'.args[1])
           /\ CachedEmpty(memory, last'.args[1])) =>
          last'.ret = TRUE
     /\ \A k \in {KeyK, KeyJ} :
          (CachedEmpty(memory, k) /\ last'.op \notin {"set", "unset", "clear", "clearUnsafe"}) =>
            CachedEmpty(memory', k)]_vars

\* get("K", "d") has returned the empty string from the cache while the OS
\* environment, first in the source list, holds K=a
C27_Witness ==
  /\ last.op = "get" /\ last.args = <<KeyK>> /\ last.def = <<ValD>> /\ last.ret = Empty
  /\ CachedEmpty(memory, KeyK)
  /\ sources # <<>> /\ sources[1] = StrOs
  /\ runtimeEnv(env, KeyK) = ValA

(***************************************************************************)
(* Properties of the calls with several arguments, under the clearing      *)
(* specification                                                           *)
(***************************************************************************)
\* the namespace and the bare key of an argument that is well formed
NamespaceOf(arg) == IF HasColon(arg) THEN BeforeFirst(arg, ":") ELSE Empty
BareOf(arg) == IF HasColon(arg) THEN AfterFirst(arg, ":") ELSE arg

\* does the argument end unset, resp. clearUnsafe, fatally
StopsUnset(arg) == MalformedKey(arg) \/ NamespaceOf(arg) \notin {Empty, StrOs}
StopsClearUnsafe(arg) == StopsUnset(arg) \/ arg = OsStar

\* the position of the first argument that satisfies Stops, one past the end
\* of the list when none does
FirstStop(args, Stops(_)) ==
  IF \E i \in 1..Len(args) : Stops(args[i])
  THEN CHOOSE i \in 1..Len(args) : Stops(args[i]) /\ \A j \in 1..(i - 1) : ~Stops(args[j])
  ELSE Len(args) + 1

\* the arguments before position n that address the cache, resp. the OS
\* environment, as bare keys or patterns
CacheArgs(args, n) == {BareOf(args[j]) : j \in {i \in 1..(n - 1) : NamespaceOf(args[i]) = Empty}}
OsArgs(args, n) == {BareOf(args[j]) : j \in {i \in 1..(n - 1) : NamespaceOf(args[i]) = StrOs}}

\* C30: unset and clearUnsafe with several arguments work from left to right
\* and take nothing back: when argument i ends the call fatally (a malformed
\* key, a file or unknown namespace, or "os:*"), the cache and OS deletions of
\* the arguments before i have been made and stay, and no argument after i
\* has any effect; files and the source list are never changed.
C30_LeftToRight ==
  [][/\ last'.op = "unset" =>
          LET n == FirstStop(last'.args, StopsUnset)
          IN /\ last'.fatal = (n <= Len(last'.args))
             /\ memory' = SelectSeq(memory, LAMBDA en : en.key \notin CacheArgs(last'.args, n))
             /\ env' = SelectSeq(env, LAMBDA en : en.key \notin OsArgs(last'.args, n))
             /\ UNCHANGED <<files, sources>>
     /\ last'.op = "clearUnsafe" =>
          LET n == FirstStop(last'.args, StopsClearUnsafe)
          IN /\ last'.fatal = (n <= Len(last'.args))
             /\ memory' = SelectSeq(memory, LAMBDA en :
                            \A p \in CacheArgs(last'.args, n) : ~matchPattern(en.key, p))
             /\ env' = SelectSeq(env, LAMBDA en :
                         \A p \in OsArgs(last'.args, n) : ~matchPattern(en.key, p))
             /\ UNCHANGED <<files, sources>>]_vars

\* unset("os:K", "J", ".env:K", "K") has ended fatally at its third argument:
\* the OS variable K is gone and J is out of the cache, while K, named by the
\* fourth argument, is still cached
C30_Witness ==
  /\ last.op = "unset" /\ last.args = <<OsK, KeyJ, EnvFileK, KeyK>>
  /\ last.fatal
  /\ ~mapHas(env, KeyK) /\ mapHas(env, KeyJ)
  /\ ~mapHas(memory, KeyJ) /\ mapHas(memory, KeyK)

====
